---------------------------- MODULE Spec2Model ----------------------------
(***************************************************************************)
(* FX-Risk-Calculator: the rate orchestrator (primary / fallback / stale   *)
(* cache), the refresh paths that drive it (manual route, scheduled job),  *)
(* the persisted rate rows and the portfolio valuation engine.             *)
(*                                                                         *)
(* Three specifications share the variables:                               *)
(*   Spec        the Orchestrator object alone, its providers obeying the  *)
(*               get_latest interface (a snapshot, or ProviderError);      *)
(*   SpecRefresh POST /rates/refresh, the scheduled job and GET            *)
(*               /health/rates around one orchestrator and the rate store; *)
(*   SpecVal     the rate store, the positions of one portfolio and the    *)
(*               valuation operations.                                     *)
(*                                                                         *)
(* Optional values (Python None) are sequences: <<>> is None, <<x>> is x.  *)
(* Decimals are exact fractions <<n, d>> in lowest terms, d > 0.  Every    *)
(* rate of the model is of the form 2^a * 5^b, so every quotient the code  *)
(* forms terminates well inside the 28-digit context and the context's     *)
(* rounding never applies: the fractions are the code's Decimal values.    *)
(***************************************************************************)
EXTENDS Integers, Sequences, FiniteSets, TLC

VARIABLES
    last_snapshot,     \* Orchestrator._last_snapshot: <<>> or <<SnapshotRecord>>
    fallback,          \* Orchestrator._fallback is not None
    call,              \* the latest refresh_latest call: what it saw, did and returned
    refresh_state,     \* app.extensions["fx_refresh_state"]
    throttle_seconds,  \* app.config["REFRESH_THROTTLE_SECONDS"]
    now,               \* datetime.now(UTC), in seconds
    fx_rates,          \* rows of table fx_rates for the canonical base
    positions,         \* rows of table positions of the portfolio, in query order
    response           \* what the latest request or service call returned or raised

vars == <<last_snapshot, fallback, call, refresh_state, throttle_seconds, now,
          fx_rates, positions, response>>

None == <<>>
Some(x) == <<x>>

-----------------------------------------------------------------------------
(* Decimal arithmetic                                                      *)

RECURSIVE GCD(_, _)
GCD(a, b) == IF b = 0 THEN a ELSE GCD(b, a % b)

Abs(n) == IF n < 0 THEN 0 - n ELSE n

\* n/d in lowest terms with a positive denominator
Frac(n, d) ==
    LET s == IF d < 0 THEN 0 - 1 ELSE 1
        g == GCD(Abs(n), Abs(d))
    IN  <<(s * n) \div g, (s * d) \div g>>

Zero == <<0, 1>>
One == <<1, 1>>

DecAdd(x, y) == Frac(x[1] * y[2] + y[1] * x[2], x[2] * y[2])
DecNeg(x) == <<0 - x[1], x[2]>>
DecSub(x, y) == DecAdd(x, DecNeg(y))
DecMul(x, y) == Frac(x[1] * y[1], x[2] * y[2])
DecDiv(x, y) == Frac(x[1] * y[2], x[2] * y[1])
DecAbs(x) == <<Abs(x[1]), x[2]>>
DecLE(x, y) == x[1] * y[2] <= y[1] * x[2]
DecLT(x, y) == x[1] * y[2] < y[1] * x[2]

RECURSIVE Pow10(_)
Pow10(k) == IF k = 0 THEN 1 ELSE 10 * Pow10(k - 1)

\* Decimal.quantize to `places` decimal places, ROUND_HALF_EVEN
quantize_amount(value, places) ==
    LET scale == Pow10(places)
        a == Abs(value[1]) * scale
        f == a \div value[2]
        r == a % value[2]
        up == IF 2 * r > value[2] \/ (2 * r = value[2] /\ f % 2 = 1) THEN 1 ELSE 0
        s == IF value[1] < 0 THEN 0 - 1 ELSE 1
    IN  Frac(s * (f + up), scale)

\* the significant digits of the decimal context: 28 in get_decimal_context,
\* scaled down so that quotients stay within TLC's integers
ROUNDING_PRECISION == 4

RECURSIVE long_division(_, _, _, _)
\* the quotient digit by digit until it has ROUNDING_PRECISION digits or the
\* division is exact: <<quotient, remainder, decimal places>>
long_division(q, r, d, places) ==
    IF q >= Pow10(ROUNDING_PRECISION - 1) \/ r = 0 THEN <<q, r, places>>
    ELSE long_division(10 * q + (10 * r) \div d, (10 * r) % d, d, places + 1)

RECURSIVE integer_shift(_, _, _)
\* the power of ten at which a quotient of more than ROUNDING_PRECISION integer
\* digits is rounded
integer_shift(a, d, shift) ==
    IF a \div (d * Pow10(shift)) < Pow10(ROUNDING_PRECISION) THEN shift
    ELSE integer_shift(a, d, shift + 1)

\* ROUND_HALF_EVEN of the quotient q that left remainder r over the divisor unit
half_even(q, r, unit) ==
    IF 2 * r > unit \/ (2 * r = unit /\ q % 2 = 1) THEN q + 1 ELSE q

\* a result of more than ROUNDING_PRECISION integer digits, rounded at 10^shift
round_integer(x, unit, scale) ==
    Frac((IF x[1] < 0 THEN 0 - 1 ELSE 1)
             * half_even(Abs(x[1]) \div unit, Abs(x[1]) % unit, unit) * scale, 1)

\* ld = <<quotient, remainder, decimal places>> of the long division of x: an
\* exact result is kept, an inexact one is rounded at its last digit
round_fraction(x, ld) ==
    IF ld[2] = 0 THEN x
    ELSE Frac((IF x[1] < 0 THEN 0 - 1 ELSE 1) * half_even(ld[1], ld[2], x[2]),
              Pow10(ld[3]))

round_shifted(x, shift) ==
    IF shift > 0 THEN round_integer(x, x[2] * Pow10(shift), Pow10(shift))
    ELSE round_fraction(x, long_division(Abs(x[1]) \div x[2], Abs(x[1]) % x[2], x[2], 0))

\* the context's rounding of an exact result: ROUNDING_PRECISION significant
\* digits, ROUND_HALF_EVEN
context_round(x) == round_shifted(x, integer_shift(Abs(x[1]), x[2], 0))

\* value / base_rate under the decimal context
context_divide(x, y) == context_round(DecDiv(x, y))

-----------------------------------------------------------------------------
(* Currency codes, rate tables, provider snapshots                         *)

FX_CANONICAL_BASE == "USD"

\* three snapshots' worth of rates against the canonical base: a full table,
\* a second full table, and one with a zero rate and no EUR row
RateTables ==
    { [c \in {"EUR", "GBP"} |-> IF c = "EUR" THEN <<4, 5>> ELSE <<1, 2>>],
      [c \in {"EUR", "GBP"} |-> IF c = "EUR" THEN <<1, 2>> ELSE <<16, 1>>],
      [c \in {"GBP"} |-> Zero] }

Timestamps == {1, 2}

ProviderName(role) == IF role = "primary" THEN "exchange" ELSE "ecb"

\* what a provider's get_latest can return for `base`
Snapshots(role, base) ==
    { [base_currency |-> base, source |-> ProviderName(role), timestamp |-> t, rates |-> r] :
        t \in Timestamps, r \in RateTables }

Returned(s) == [ok |-> TRUE, snapshot |-> Some(s)]
ProviderError == [ok |-> FALSE, snapshot |-> None]

Outcomes(role, base) == {ProviderError} \cup {Returned(s) : s \in Snapshots(role, base)}

-----------------------------------------------------------------------------
(* Orchestrator                                                            *)

SnapshotRecord(snapshot, stale) == [snapshot |-> snapshot, stale |-> stale]

Attempt(role, outcome) == [provider |-> role, outcome |-> outcome]

store_snapshot_always_stale(snapshot, stale) == Some(SnapshotRecord(snapshot, TRUE))

store_snapshot(snapshot, stale) == Some(SnapshotRecord(snapshot, stale))

serve_cached_keeps_flag(last, attempts) ==
    IF last = None
    THEN [last |-> last, result |-> None, raised |-> "ProviderError",
          attempts |-> attempts, cache_read |-> TRUE]
    ELSE [last |-> last, result |-> Some(last[1].snapshot), raised |-> "none",
          attempts |-> attempts, cache_read |-> TRUE]

\* serve_cached that hands the cached snapshot out and empties the record
serve_cached_empties(last, attempts) ==
    IF last = None
    THEN [last |-> last, result |-> None, raised |-> "ProviderError",
          attempts |-> attempts, cache_read |-> TRUE]
    ELSE [last |-> None, result |-> Some(last[1].snapshot), raised |-> "none",
          attempts |-> attempts, cache_read |-> TRUE]

\* lines 106-127: no provider succeeded
serve_cached(last, attempts) ==
    IF last = None
    THEN [last |-> last, result |-> None, raised |-> "ProviderError",
          attempts |-> attempts, cache_read |-> TRUE]
    ELSE [last |-> Some(SnapshotRecord(last[1].snapshot, TRUE)),
          result |-> Some(last[1].snapshot), raised |-> "none",
          attempts |-> attempts, cache_read |-> TRUE]

try_fallback_gives_up(last, fb, fOut, attempts) ==
    IF fb
    THEN IF fOut.ok
         THEN [last |-> store_snapshot(fOut.snapshot[1], FALSE),
               result |-> fOut.snapshot, raised |-> "none",
               attempts |-> Append(attempts, Attempt("fallback", fOut)),
               cache_read |-> FALSE]
         ELSE [last |-> last, result |-> None, raised |-> "ProviderError",
               attempts |-> Append(attempts, Attempt("fallback", fOut)),
               cache_read |-> FALSE]
    ELSE serve_cached(last, attempts)

\* lines 71-104: the fallback, when one is configured
try_fallback(last, fb, fOut, attempts) ==
    IF fb
    THEN IF fOut.ok
         THEN [last |-> store_snapshot(fOut.snapshot[1], FALSE),
               result |-> fOut.snapshot, raised |-> "none",
               attempts |-> Append(attempts, Attempt("fallback", fOut)),
               cache_read |-> FALSE]
         ELSE serve_cached(last, Append(attempts, Attempt("fallback", fOut)))
    ELSE serve_cached(last, attempts)

refresh_latest_forgets_store(last, fb, pOut, fOut) ==
    IF pOut.ok
    THEN [last |-> last, result |-> pOut.snapshot, raised |-> "none",
          attempts |-> <<Attempt("primary", pOut)>>, cache_read |-> FALSE]
    ELSE try_fallback(last, fb, fOut, <<Attempt("primary", pOut)>>)

\* Orchestrator.refresh_latest on record `last`, pOut and fOut being what the
\* primary's and the fallback's get_latest do when (and if) they are called
refresh_latest(last, fb, pOut, fOut) ==
    IF pOut.ok
    THEN [last |-> store_snapshot(pOut.snapshot[1], FALSE),
          result |-> pOut.snapshot, raised |-> "none",
          attempts |-> <<Attempt("primary", pOut)>>, cache_read |-> FALSE]
    ELSE try_fallback(last, fb, fOut, <<Attempt("primary", pOut)>>)

get_snapshot_info == last_snapshot

\* The latest refresh_latest call, as its caller and its providers saw it:
\* before = the record it found, primary / fallback_would = what the two
\* get_latest calls do on this call, fetched_before = the snapshot most recently
\* obtained from a provider by the calls before it.
NoCall == [made |-> FALSE, before |-> None, fallback |-> FALSE,
           primary |-> ProviderError, fallback_would |-> ProviderError,
           result |-> None, raised |-> "none", attempts |-> <<>>,
           cache_read |-> FALSE, fetched_before |-> None, fetched |-> None]

Fetched(r) ==
    IF \E i \in 1..Len(r.attempts) : r.attempts[i].outcome.ok THEN r.result ELSE None

CallLog(prev, before, fb, pOut, fOut, r) ==
    [made |-> TRUE, before |-> before, fallback |-> fb,
     primary |-> pOut, fallback_would |-> fOut,
     result |-> r.result, raised |-> r.raised, attempts |-> r.attempts,
     cache_read |-> r.cache_read,
     fetched_before |-> IF prev.fetched # None THEN prev.fetched ELSE prev.fetched_before,
     fetched |-> Fetched(r)]

EmptyState == [last_success |-> None, last_failure |-> None, throttle_until |-> None,
               throttle_window |-> None, last_snapshot |-> None]

NoResponse == [op |-> "none"]

Init ==
    /\ last_snapshot = None
    /\ fallback \in BOOLEAN
    /\ call = NoCall
    /\ refresh_state = EmptyState
    /\ throttle_seconds = 0
    /\ now = 0
    /\ fx_rates = {}
    /\ positions = <<>>
    /\ response = NoResponse

RefreshLatest ==
    \E pOut \in Outcomes("primary", FX_CANONICAL_BASE),
       fOut \in Outcomes("fallback", FX_CANONICAL_BASE) :
        LET r == refresh_latest(last_snapshot, fallback, pOut, fOut)
        IN  /\ last_snapshot' = r.last
            /\ call' = CallLog(call, last_snapshot, fallback, pOut, fOut, r)
            /\ UNCHANGED <<fallback, refresh_state, throttle_seconds, now, fx_rates,
                           positions, response>>

GetSnapshotInfo ==
    /\ response' = [op |-> "get_snapshot_info", record |-> get_snapshot_info]
    /\ UNCHANGED <<last_snapshot, fallback, call, refresh_state, throttle_seconds, now,
                   fx_rates, positions>>

Next == RefreshLatest \/ GetSnapshotInfo

Spec == Init /\ [][Next]_vars

-----------------------------------------------------------------------------
(* Orchestrator claims                                                     *)

Calls(role) == {i \in 1..Len(call.attempts) : call.attempts[i].provider = role}

\* every configured provider's get_latest raised ProviderError during the call
EveryProviderFailed ==
    /\ ~call.primary.ok
    /\ call.fallback => ~call.fallback_would.ok

C2_StaleFallbackServesCache ==
    (call.made /\ call.fallback /\ ~call.primary.ok /\ ~call.fallback_would.ok
        /\ call.fetched_before # None) =>
        /\ call.before # None
        /\ call.raised = "none"
        /\ call.result = Some(call.before[1].snapshot)
        /\ call.result = call.fetched_before
        /\ last_snapshot = Some(SnapshotRecord(call.before[1].snapshot, TRUE))

C2_Witness ==
    /\ call.made /\ call.fallback /\ ~call.primary.ok /\ ~call.fallback_would.ok
    /\ call.before # None /\ ~call.before[1].stale
    /\ last_snapshot # None /\ last_snapshot[1].stale

\* C3: when the primary's get_latest fails and the fallback's succeeds, the call
\* returns exactly the fallback's snapshot, stores it with stale = FALSE whatever
\* the record held before, and called each of the two providers exactly once.
C3_FallbackSnapshotStoredFresh ==
    (call.made /\ call.fallback /\ ~call.primary.ok /\ call.fallback_would.ok) =>
        /\ call.raised = "none"
        /\ call.result = call.fallback_would.snapshot
        /\ last_snapshot = Some(SnapshotRecord(call.fallback_would.snapshot[1], FALSE))
        /\ Cardinality(Calls("primary")) = 1
        /\ Cardinality(Calls("fallback")) = 1

C3_Witness ==
    /\ call.made /\ call.fallback /\ ~call.primary.ok /\ call.fallback_would.ok
    /\ call.before # None /\ call.before[1].stale
    /\ call.before[1].snapshot # call.fallback_would.snapshot[1]
    /\ last_snapshot # None /\ ~last_snapshot[1].stale

\* C4: when the primary's get_latest succeeds, the call returns exactly the
\* primary's snapshot and the record becomes (that snapshot, stale = FALSE),
\* whatever it held before.
C4_PrimarySnapshotStoredFresh ==
    (call.made /\ call.primary.ok) =>
        /\ call.raised = "none"
        /\ call.result = call.primary.snapshot
        /\ last_snapshot = Some(SnapshotRecord(call.primary.snapshot[1], FALSE))

C4_Witness ==
    /\ call.made /\ call.primary.ok
    /\ call.before # None /\ call.before[1].stale
    /\ call.before[1].snapshot # call.primary.snapshot[1]
    /\ last_snapshot = Some(SnapshotRecord(call.primary.snapshot[1], FALSE))

-----------------------------------------------------------------------------
(* Rate store, refresh state, manual refresh route, scheduled job, health  *)

MaxTime == 2

Max(a, b) == IF a >= b THEN a ELSE b

FxRate(base, target, timestamp, rate, source) ==
    [base |-> base, target |-> target, timestamp |-> timestamp, rate |-> rate,
     source |-> source]

\* rate_store.persist_snapshot: one upsert per quoted currency, keyed by
\* (base, target, timestamp, source)
persist_snapshot(rows, snapshot) ==
    {r \in rows : ~(/\ r.base = snapshot.base_currency
                    /\ r.target \in DOMAIN snapshot.rates
                    /\ r.timestamp = snapshot.timestamp
                    /\ r.source = snapshot.source)}
    \cup {FxRate(snapshot.base_currency, c, snapshot.timestamp, snapshot.rates[c],
                 snapshot.source) : c \in DOMAIN snapshot.rates}

SnapshotSummary(snapshot) ==
    [source |-> snapshot.source, base_currency |-> snapshot.base_currency,
     timestamp |-> snapshot.timestamp]

throttle_gate_until_only(state, seconds, t) ==
    LET window == Max(seconds, 0)
        window_matches == state.throttle_window = None \/ state.throttle_window = Some(window)
    IN  IF window > 0 /\ window_matches /\ state.throttle_until # None
              /\ state.throttle_until[1] > t
        THEN [throttled |-> TRUE, retry_after |-> Max(state.throttle_until[1] - t, 1),
              state |-> state]
        ELSE [throttled |-> FALSE, retry_after |-> 0, state |-> state]

\* routes.py lines 27-59: <<throttled, retry_after, state after the gate>>
throttle_gate(state, seconds, t) ==
    LET window == Max(seconds, 0)
        window_matches == state.throttle_window = None \/ state.throttle_window = Some(window)
    IN  IF window > 0 /\ window_matches /\ state.throttle_until # None
              /\ state.throttle_until[1] > t
        THEN [throttled |-> TRUE, retry_after |-> Max(state.throttle_until[1] - t, 1),
              state |-> state]
        ELSE IF window > 0 /\ window_matches /\ state.last_success # None
             THEN IF state.last_success[1] + window > t
                  THEN [throttled |-> TRUE,
                        retry_after |-> Max(state.last_success[1] + window - t, 1),
                        state |-> [state EXCEPT !.throttle_until =
                                                    Some(state.last_success[1] + window)]]
                  ELSE [throttled |-> FALSE, retry_after |-> 0, state |-> state]
             ELSE [throttled |-> FALSE, retry_after |-> 0,
                   state |-> [state EXCEPT !.throttle_until = None]]

\* routes.py lines 72-78: the refresh state once refresh_latest has returned
record_manual_success(state, seconds, t) ==
    LET window == Max(seconds, 0)
    IN  [state EXCEPT !.last_success = Some(t),
                      !.last_failure = None,
                      !.throttle_until = IF window > 0 THEN Some(t + window) ELSE None,
                      !.throttle_window = Some(window)]

\* scheduler.py lines 50-56
record_scheduled_success(state, snapshot, t) ==
    [state EXCEPT !.last_success = Some(t),
                  !.last_failure = None,
                  !.last_snapshot = Some(SnapshotSummary(snapshot))]

\* health/routes.py HealthRates.get
health_rates(record) ==
    IF record = None
    THEN [status |-> "uninitialized", source |-> None, base_currency |-> None,
          last_updated |-> None, stale |-> None]
    ELSE [status |-> "ok", source |-> Some(record[1].snapshot.source),
          base_currency |-> Some(record[1].snapshot.base_currency),
          last_updated |-> Some(record[1].snapshot.timestamp),
          stale |-> Some(record[1].stale)]

\* what the providers of SpecRefresh do: fail, or return the day's table
RefreshOutcomes(role) ==
    {o \in Outcomes(role, FX_CANONICAL_BASE) :
        o.ok => /\ o.snapshot[1].timestamp = 1
                /\ DOMAIN o.snapshot[1].rates = {"EUR", "GBP"}
                /\ o.snapshot[1].rates["EUR"] = <<4, 5>>}

InitRefresh ==
    /\ last_snapshot = None
    /\ fallback \in BOOLEAN
    /\ call = NoCall
    /\ refresh_state = EmptyState
    /\ throttle_seconds \in {0, 2}
    /\ now = 0
    /\ fx_rates = {}
    /\ positions = <<>>
    /\ response = NoResponse

\* POST /rates/refresh at time `now`; persist_ok = persist_snapshot commits
ManualRefresh ==
    \E pOut \in RefreshOutcomes("primary"), fOut \in RefreshOutcomes("fallback"),
       persist_ok \in BOOLEAN :
        LET gate == throttle_gate(refresh_state, throttle_seconds, now)
            r == refresh_latest(last_snapshot, fallback, pOut, fOut)
            succeeded == record_manual_success(gate.state, throttle_seconds, now)
            Reply(status) == [op |-> "refresh_rates", at |-> now, status |-> status]
        IN  /\ UNCHANGED <<fallback, throttle_seconds, now, positions>>
            /\ \/ /\ gate.throttled
                  /\ refresh_state' = gate.state
                  /\ response' = [op |-> "refresh_rates", at |-> now, status |-> 429,
                                  retry_after |-> gate.retry_after]
                  /\ UNCHANGED <<last_snapshot, call, fx_rates>>
               \/ /\ ~gate.throttled
                  /\ last_snapshot' = r.last
                  /\ call' = CallLog(call, last_snapshot, fallback, pOut, fOut, r)
                  /\ \/ /\ r.raised = "ProviderError"
                        /\ refresh_state' = [gate.state EXCEPT !.last_failure = Some(now)]
                        /\ response' = Reply(503)
                        /\ UNCHANGED fx_rates
                     \/ /\ r.raised = "none" /\ persist_ok
                        /\ fx_rates' = persist_snapshot(fx_rates, r.result[1])
                        /\ refresh_state' =
                               [succeeded EXCEPT !.last_snapshot =
                                                     Some(SnapshotSummary(r.result[1]))]
                        /\ response' = [op |-> "refresh_rates", at |-> now, status |-> 202,
                                        message |-> "Refresh triggered.",
                                        source |-> r.result[1].source,
                                        base_currency |-> r.result[1].base_currency,
                                        as_of |-> r.result[1].timestamp]
                     \/ /\ r.raised = "none" /\ ~persist_ok
                        /\ refresh_state' = succeeded
                        /\ response' = Reply(500)
                        /\ UNCHANGED fx_rates

\* scheduler._run_refresh at time `now`
ScheduledRefresh ==
    \E pOut \in RefreshOutcomes("primary"), fOut \in RefreshOutcomes("fallback"),
       persist_ok \in BOOLEAN :
        LET r == refresh_latest(last_snapshot, fallback, pOut, fOut)
            Done(raised) == [op |-> "_run_refresh", at |-> now, raised |-> raised]
        IN  /\ UNCHANGED <<fallback, throttle_seconds, now, positions>>
            /\ last_snapshot' = r.last
            /\ call' = CallLog(call, last_snapshot, fallback, pOut, fOut, r)
            /\ \/ /\ r.raised = "ProviderError"
                  /\ refresh_state' = [refresh_state EXCEPT !.last_failure = Some(now)]
                  /\ response' = Done("none")
                  /\ UNCHANGED fx_rates
               \/ /\ r.raised = "none" /\ persist_ok
                  /\ fx_rates' = persist_snapshot(fx_rates, r.result[1])
                  /\ refresh_state' = record_scheduled_success(refresh_state, r.result[1], now)
                  /\ response' = Done("none")
               \/ /\ r.raised = "none" /\ ~persist_ok
                  /\ response' = Done("SQLAlchemyError")
                  /\ UNCHANGED <<fx_rates, refresh_state>>

\* GET /health/rates
HealthRatesGet ==
    /\ response' = [op |-> "health_rates", at |-> now, status |-> 200,
                    payload |-> health_rates(get_snapshot_info)]
    /\ UNCHANGED <<last_snapshot, fallback, call, refresh_state, throttle_seconds, now,
                   fx_rates, positions>>

Tick ==
    /\ now < MaxTime
    /\ now' = now + 1
    /\ UNCHANGED <<last_snapshot, fallback, call, refresh_state, throttle_seconds,
                   fx_rates, positions, response>>

NextRefresh == ManualRefresh \/ ScheduledRefresh \/ HealthRatesGet \/ Tick

SpecRefresh == InitRefresh /\ [][NextRefresh]_vars

-----------------------------------------------------------------------------
(* Refresh route, scheduled job and health claims                          *)

\* the latest refresh_latest call served the cached snapshot
StaleServed == call.made /\ call.cache_read /\ call.raised = "none"

\* the record and the health endpoint label a served cached snapshot as stale
StaleIsLabelled ==
    StaleServed =>
        /\ get_snapshot_info # None /\ get_snapshot_info[1].stale
        /\ health_rates(get_snapshot_info).stale = Some(TRUE)
        /\ response.op = "health_rates" => response.payload.stale = Some(TRUE)

\* a step of the manual route or the scheduled job that called refresh_latest
RefreshCallStep ==
    /\ now' = now
    /\ \/ response'.op = "refresh_rates" /\ response'.status # 429
       \/ response'.op = "_run_refresh"

\* C5: whenever refresh_latest serves the cached snapshot because no provider
\* succeeded, get_snapshot_info().stale is true and GET /health/rates reports
\* stale = true, and the manual route and the scheduled job that made the call
\* do not record it as a fresh successful refresh: no 202 "Refresh triggered."
\* response, and last_success / last_failure are not set to a success.
C5_StaleNeverPresentedFresh ==
    /\ []StaleIsLabelled
    /\ [][(RefreshCallStep /\ StaleServed') =>
             /\ refresh_state'.last_success = refresh_state.last_success
             /\ response'.op = "refresh_rates" => response'.status # 202]_vars

\* a POST /rates/refresh was answered at time now
ManualRefreshStep == response'.op = "refresh_rates" /\ now' = now

\* a successful refresh is recorded less than the window ago
RecentSuccess ==
    /\ throttle_seconds > 0
    /\ refresh_state.last_success # None
    /\ now < refresh_state.last_success[1] + throttle_seconds

\* the step made one refresh_latest call and persisted the snapshot it returned
OneCallOnePersist ==
    \E pOut \in RefreshOutcomes("primary"), fOut \in RefreshOutcomes("fallback") :
        LET r == refresh_latest(last_snapshot, fallback, pOut, fOut)
        IN  /\ r.raised = "none"
            /\ call' = CallLog(call, last_snapshot, fallback, pOut, fOut, r)
            /\ last_snapshot' = r.last
            /\ fx_rates' = persist_snapshot(fx_rates, r.result[1])
            /\ response'.as_of = r.result[1].timestamp
            /\ response'.source = r.result[1].source

\* C18: with a constant window T = REFRESH_THROTTLE_SECONDS, a POST
\* /rates/refresh at time now is answered 429 if and only if T > 0 and a
\* successful refresh is recorded with now < last_success + T; a 429 makes no
\* orchestrator call, persists nothing and carries retry_after >= 1; every 202
\* made exactly one orchestrator call and one persist.
C18_ThrottledIffRecentSuccess ==
    [][ManualRefreshStep =>
          /\ response'.status = 429 <=> RecentSuccess
          /\ response'.status = 429 =>
                 /\ UNCHANGED <<last_snapshot, call, fx_rates>>
                 /\ response'.retry_after >= 1
          /\ response'.status = 202 => OneCallOnePersist]_vars

\* a manual refresh at 0 and a scheduled one at 1: the request at 2, when the
\* manual window has ended, is throttled by the scheduled success until 3
C18_Witness ==
    /\ response.op = "refresh_rates" /\ response.status = 429 /\ response.at = 2
    /\ throttle_seconds = 2 /\ now = 2
    /\ refresh_state.last_success = Some(1)
    /\ refresh_state.throttle_until = Some(3)
    /\ response.retry_after = 1

\* a step of either refresh path in which refresh_latest returned a snapshot
\* and persist_snapshot then raised
PersistFailedStep ==
    /\ now' = now
    /\ response' # response
    /\ \/ response'.op = "refresh_rates" /\ response'.status = 500
       \/ response'.op = "_run_refresh" /\ response'.raised = "SQLAlchemyError"

-----------------------------------------------------------------------------
(* Currency codes and the conversion kernel (fx_conversion.py)             *)

\* the codes of the currencies table that the registry has loaded
RegistryCodes == {"USD", "EUR", "GBP", "TRY"}

\* "E~R" stands for a three-letter code with a non-ASCII letter, "   " for a
\* code of blanks only, "eur" for a lower-case spelling
isascii(code) == code # "E~R"

\* str(code).strip().upper()
strip_upper(code) ==
    CASE code = "eur" -> "EUR"
      [] code = "   " -> ""
      [] OTHER -> code

\* normalize_currency: ok = FALSE is ValueError
normalize_currency(code) ==
    IF strip_upper(code) = "" \/ ~isascii(strip_upper(code))
    THEN [ok |-> FALSE, code |-> strip_upper(code)]
    ELSE [ok |-> TRUE, code |-> strip_upper(code)]

\* CurrencyRegistry.is_allowed
is_allowed(code) == strip_upper(code) \in RegistryCodes

\* validation.validate_currency_code: ok = FALSE is ValidationError
validate_currency_code(value) ==
    IF strip_upper(value) = "" \/ ~isascii(strip_upper(value))
          \/ ~is_allowed(strip_upper(value))
    THEN [ok |-> FALSE, code |-> strip_upper(value)]
    ELSE [ok |-> TRUE, code |-> strip_upper(value)]

EmptyRates == [c \in {} |-> Zero]

rebase_rates_multiplies(rates, new_base) ==
    IF new_base \notin DOMAIN rates \/ rates[new_base] = Zero
    THEN [ok |-> FALSE, rates |-> EmptyRates]
    ELSE [ok |-> TRUE, rates |-> [c \in DOMAIN rates |-> DecMul(rates[c], rates[new_base])]]

\* rebase_rates that lets a zero base rate through, the table as it was
rebase_rates_zero_base_passes(rates, new_base) ==
    LET target_base == strip_upper(new_base)
    IN  IF target_base \notin DOMAIN rates
        THEN [ok |-> FALSE, rates |-> EmptyRates]
        ELSE IF rates[target_base] = Zero
             THEN [ok |-> TRUE, rates |-> rates]
             ELSE [ok |-> TRUE,
                   rates |-> [c \in DOMAIN rates |->
                                 context_divide(rates[c], rates[target_base])]]

\* rebase_rates over a table of normalized codes: ok = FALSE is RebaseError
rebase_rates(rates, new_base) ==
    LET target_base == strip_upper(new_base)
    IN  IF target_base \notin DOMAIN rates \/ rates[target_base] = Zero
        THEN [ok |-> FALSE, rates |-> EmptyRates]
        ELSE [ok |-> TRUE,
              rates |-> [c \in DOMAIN rates |->
                            context_divide(rates[c], rates[target_base])]]

\* str(side).strip().upper()
side_strip_upper(side) ==
    CASE side = "short" -> "SHORT"
      [] side = " long " -> "LONG"
      [] OTHER -> side

\* convert_amount raises ValueError for this side
invalid_side(side) == side_strip_upper(side) \notin {"LONG", "SHORT"}

\* amount_dec * rate_dec under the decimal context
context_multiply(x, y) == context_round(DecMul(x, y))

\* convert_amount that leaves the sign of a short position as it is
convert_amount_unsigned(amount, rate, side) == context_multiply(amount, rate)

\* convert_amount for a side it accepts
convert_amount(amount, rate, side) ==
    LET normalized_side == side_strip_upper(side)
        converted == context_multiply(amount, rate)
    IN  IF normalized_side = "SHORT" THEN DecNeg(converted) ELSE converted

\* convert_position_amount that looks the rate up also for the portfolio base
convert_position_amount_looks_up(native_amount, position_currency, portfolio_base, rate_lookup, side) ==
    IF position_currency \notin DOMAIN rate_lookup
    THEN IF position_currency = portfolio_base
         THEN [ok |-> TRUE, value |-> convert_amount(native_amount, One, side)]
         ELSE [ok |-> FALSE, value |-> Zero]
    ELSE [ok |-> TRUE,
          value |-> convert_amount(native_amount, rate_lookup[position_currency], side)]

\* convert_position_amount: ok = FALSE is RebaseError
convert_position_amount(native_amount, position_currency, portfolio_base, rate_lookup, side) ==
    IF position_currency = portfolio_base
    THEN [ok |-> TRUE, value |-> convert_amount(native_amount, One, side)]
    ELSE IF position_currency \notin DOMAIN rate_lookup
         THEN [ok |-> FALSE, value |-> Zero]
         ELSE [ok |-> TRUE,
               value |-> convert_amount(native_amount, rate_lookup[position_currency], side)]

-----------------------------------------------------------------------------
(* Reading the rate store (portfolio_metrics.py)                           *)

RowsAt(rows, canonical_base, timestamp) ==
    {r \in rows : r.base = canonical_base /\ r.timestamp = timestamp}

\* _rates_for_timestamps for one timestamp: the query has no ORDER BY, so when
\* two sources quote a currency at that timestamp either row can come last; the
\* set of the tables the loop can build
rates_for_timestamp(rows, canonical_base, timestamp) ==
    LET at == RowsAt(rows, canonical_base, timestamp)
        targets == {r.target : r \in at}
        Last == {pick \in [targets -> at] : \A c \in targets : pick[c].target = c}
    IN  IF at = {}
        THEN {EmptyRates}
        ELSE {[c \in targets \cup {canonical_base} |->
                   IF c = canonical_base THEN One ELSE pick[c].rate] : pick \in Last}

StoredTimestamps(rows, canonical_base) == {r.timestamp : r \in {q \in rows : q.base = canonical_base}}

SetMax(S) == CHOOSE x \in S : \A y \in S : y <= x

\* _latest_rates: the <<rates_map, as_of>> pairs it can return
latest_rates(rows, canonical_base) ==
    IF StoredTimestamps(rows, canonical_base) = {}
    THEN {<<EmptyRates, None>>}
    ELSE LET latest == SetMax(StoredTimestamps(rows, canonical_base))
         IN  {<<m, Some(latest)>> : m \in rates_for_timestamp(rows, canonical_base, latest)}

latest_two_timestamps_repeats(rows, canonical_base) ==
    LET all == StoredTimestamps(rows, canonical_base)
    IN  IF all = {} THEN <<None, None>>
        ELSE IF Cardinality(all) = 1 THEN <<Some(SetMax(all)), None>>
        ELSE <<Some(SetMax(all)), Some(SetMax(all))>>

\* _latest_two_timestamps
latest_two_timestamps(rows, canonical_base) ==
    LET all == StoredTimestamps(rows, canonical_base)
    IN  IF all = {} THEN <<None, None>>
        ELSE IF Cardinality(all) = 1 THEN <<Some(SetMax(all)), None>>
        ELSE <<Some(SetMax(all)), Some(SetMax(all \ {SetMax(all)}))>>

rates_in_view_base_no_inversion(rates_map, canonical_base, view_base) ==
    LET normalized == [c \in DOMAIN rates_map \cup {canonical_base} |->
                           IF c \in DOMAIN rates_map THEN rates_map[c] ELSE One]
        rebased == rebase_rates(normalized, view_base)
        source == IF view_base = canonical_base THEN normalized
                  ELSE [rebased.rates EXCEPT ![view_base] = One]
    IN  IF view_base # canonical_base /\ (view_base \notin DOMAIN normalized \/ ~rebased.ok)
        THEN [ok |-> FALSE, rates |-> EmptyRates]
        ELSE [ok |-> TRUE,
              rates |-> [c \in {d \in DOMAIN source : d = view_base \/ source[d] # Zero} |->
                            IF c = view_base THEN One ELSE source[c]]]

rates_in_view_base_marks_unpriced(rates_map, canonical_base, view_base) ==
    LET normalized == [c \in DOMAIN rates_map \cup {canonical_base} |->
                           IF c \in DOMAIN rates_map THEN rates_map[c] ELSE One]
        rebased == rebase_rates(normalized, view_base)
        source == IF view_base = canonical_base THEN normalized
                  ELSE [rebased.rates EXCEPT ![view_base] = One]
    IN  IF view_base # canonical_base /\ (view_base \notin DOMAIN normalized \/ ~rebased.ok)
        THEN [ok |-> TRUE, rates |-> EmptyRates]
        ELSE [ok |-> TRUE,
              rates |-> [c \in {d \in DOMAIN source : d = view_base \/ source[d] # Zero} |->
                            IF c = view_base THEN One ELSE DecDiv(One, source[c])]]

\* _rates_in_view_base: view-base units per unit of each currency; ok = FALSE
\* is the ValidationError of _missing_view_base_error
rates_in_view_base(rates_map, canonical_base, view_base) ==
    LET normalized == [c \in DOMAIN rates_map \cup {canonical_base} |->
                           IF c \in DOMAIN rates_map THEN rates_map[c] ELSE One]
        rebased == rebase_rates(normalized, view_base)
        source == IF view_base = canonical_base THEN normalized
                  ELSE [rebased.rates EXCEPT ![view_base] = One]
    IN  IF view_base # canonical_base /\ (view_base \notin DOMAIN normalized \/ ~rebased.ok)
        THEN [ok |-> FALSE, rates |-> EmptyRates]
        ELSE [ok |-> TRUE,
              rates |-> [c \in {d \in DOMAIN source : d = view_base \/ source[d] # Zero} |->
                            IF c = view_base THEN One ELSE DecDiv(One, source[c])]]

-----------------------------------------------------------------------------
(* Valuation engine (portfolio_metrics.py)                                 *)

PORTFOLIO_BASE == "USD"

UNPRICED_REASON_MISSING_RATE == "missing_rate"
UNPRICED_REASON_UNKNOWN_CURRENCY == "unknown_currency"

\* _init_reason_map: reason -> set of codes, no reason present yet
init_reason_map == [r \in {} |-> {}]

\* reasons.get(reason, [])
Reason(reason_map, reason) == IF reason \in DOMAIN reason_map THEN reason_map[reason] ELSE {}

\* _add_reason: a code that is blank once stripped is not recorded
add_reason(reason_map, reason, currency_code) ==
    IF currency_code = "" \/ strip_upper(currency_code) = ""
    THEN reason_map
    ELSE [r \in DOMAIN reason_map \cup {reason} |->
              IF r = reason THEN Reason(reason_map, r) \cup {strip_upper(currency_code)}
              ELSE reason_map[r]]

\* _serialize_reason_map: the reasons that have codes
serialize_reason_map(reason_map) ==
    [r \in {q \in DOMAIN reason_map : reason_map[q] # {}} |-> reason_map[r]]

RECURSIVE add_reason_all(_, _, _, _)
\* for position in positions: _add_reason(reason_map, reason, position.currency_code)
add_reason_all(reason_map, reason, pos, i) ==
    IF i > Len(pos) THEN reason_map
    ELSE add_reason_all(add_reason(reason_map, reason, pos[i].currency_code),
                        reason, pos, i + 1)

\* one turn of the loop of _portfolio_value_from_rates
value_step(acc, position, view_base, rate_lookup) ==
    LET n == normalize_currency(position.currency_code)
        converted == convert_position_amount(position.amount, n.code, view_base,
                                             rate_lookup, position.side)
    IN  IF ~n.ok \/ ~is_allowed(n.code)
        THEN [acc EXCEPT !.unpriced = @ + 1,
                         !.reason_map = add_reason(@, UNPRICED_REASON_UNKNOWN_CURRENCY, n.code)]
        ELSE IF ~converted.ok
             THEN [acc EXCEPT !.unpriced = @ + 1,
                              !.reason_map = add_reason(@, UNPRICED_REASON_MISSING_RATE, n.code)]
             ELSE [acc EXCEPT !.priced = @ + 1, !.total = DecAdd(@, converted.value)]

RECURSIVE value_loop(_, _, _, _, _)
value_loop(acc, pos, i, view_base, rate_lookup) ==
    IF i > Len(pos) THEN acc
    ELSE value_loop(value_step(acc, pos[i], view_base, rate_lookup),
                    pos, i + 1, view_base, rate_lookup)

\* _portfolio_value_from_rates: total, priced, unpriced, reason_map
portfolio_value_from_rates(pos, view_base, rate_lookup) ==
    value_loop([total |-> Zero, priced |-> 0, unpriced |-> 0, reason_map |-> init_reason_map],
               pos, 1, view_base, rate_lookup)

ValidationError == [raised |-> "ValidationError", field |-> "base"]

\* a ValidationError whose payload names another field
ValidationErrorFor(field) == [raised |-> "ValidationError", field |-> field]

\* _missing_view_base_error: names the field, the view base and the timestamp
missing_view_base_error(view_base, as_of) ==
    [raised |-> "ValidationError", field |-> "base", view_base |-> view_base, as_of |-> as_of]

\* view_base or portfolio_base, validated
resolve_view_base(view_base) ==
    validate_currency_code(IF view_base = None \/ view_base = Some("")
                           THEN PORTFOLIO_BASE ELSE view_base[1])

PortfolioValueResult(view_base, value, priced, unpriced, unpriced_reasons, as_of) ==
    [raised |-> "none", view_base |-> view_base, value |-> value, priced |-> priced,
     unpriced |-> unpriced, unpriced_reasons |-> unpriced_reasons, as_of |-> as_of]

\* calculate_portfolio_value, latest being what _latest_rates returned
calculate_portfolio_value(pos, latest, view_base) ==
    LET resolved == resolve_view_base(view_base)
        effective == rates_in_view_base(latest[1], FX_CANONICAL_BASE, resolved.code)
        v == portfolio_value_from_rates(pos, resolved.code, effective.rates)
    IN  IF ~resolved.ok THEN ValidationError
        ELSE IF pos = <<>>
        THEN PortfolioValueResult(resolved.code, quantize_amount(Zero, 2), 0, 0,
                                  init_reason_map, None)
        ELSE IF latest[2] = None \/ DOMAIN latest[1] = {}
        THEN PortfolioValueResult(
                 resolved.code, quantize_amount(Zero, 2), 0, Len(pos),
                 serialize_reason_map(add_reason_all(init_reason_map,
                                                     UNPRICED_REASON_MISSING_RATE, pos, 1)),
                 None)
        ELSE IF ~effective.ok THEN missing_view_base_error(resolved.code, latest[2])
        ELSE PortfolioValueResult(resolved.code, quantize_amount(v.total, 2), v.priced,
                                  v.unpriced, serialize_reason_map(v.reason_map), latest[2])

CurrencyExposure(currency_code, net_native, base_equivalent) ==
    [currency_code |-> currency_code, net_native |-> net_native,
     base_equivalent |-> base_equivalent]

\* totals.setdefault(currency, ...) followed by the two += of the loop
add_to_bucket(totals, currency, native_signed, base_equiv) ==
    IF \E j \in 1..Len(totals) : totals[j].currency_code = currency
    THEN [j \in 1..Len(totals) |->
              IF totals[j].currency_code = currency
              THEN CurrencyExposure(currency, DecAdd(totals[j].net_native, native_signed),
                                    DecAdd(totals[j].base_equivalent, base_equiv))
              ELSE totals[j]]
    ELSE Append(totals, CurrencyExposure(currency, native_signed, base_equiv))

\* one turn of the loop of calculate_currency_exposure
exposure_step(acc, position, view_base, rate_lookup) ==
    LET n == normalize_currency(position.currency_code)
        base_equiv == convert_position_amount(position.amount, n.code, view_base,
                                              rate_lookup, position.side)
    IN  IF ~n.ok \/ ~is_allowed(n.code)
        THEN [acc EXCEPT !.unpriced = @ + 1,
                         !.reason_map = add_reason(@, UNPRICED_REASON_UNKNOWN_CURRENCY, n.code)]
        ELSE IF ~base_equiv.ok
             THEN [acc EXCEPT !.unpriced = @ + 1,
                              !.reason_map = add_reason(@, UNPRICED_REASON_MISSING_RATE, n.code)]
             ELSE [acc EXCEPT !.priced = @ + 1,
                              !.totals = add_to_bucket(@, n.code,
                                                       convert_amount(position.amount, One,
                                                                      position.side),
                                                       base_equiv.value)]

RECURSIVE exposure_loop(_, _, _, _, _)
exposure_loop(acc, pos, i, view_base, rate_lookup) ==
    IF i > Len(pos) THEN acc
    ELSE exposure_loop(exposure_step(acc, pos[i], view_base, rate_lookup),
                       pos, i + 1, view_base, rate_lookup)

\* where a stable descending sort by abs(base_equivalent) puts x in sorted
insert_exposure(sorted, x) ==
    LET ahead == Cardinality({j \in 1..Len(sorted) :
                     DecLE(DecAbs(x.base_equivalent), DecAbs(sorted[j].base_equivalent))})
    IN  SubSeq(sorted, 1, ahead) \o <<x>> \o SubSeq(sorted, ahead + 1, Len(sorted))

RECURSIVE sort_exposures(_, _)
\* exposures.sort(key=abs(base_equivalent), reverse=True)
sort_exposures(exposures, i) ==
    IF i = 0 THEN <<>>
    ELSE insert_exposure(sort_exposures(exposures, i - 1), exposures[i])

RECURSIVE sum_field(_, _, _)
sum_field(items, i, native) ==
    IF i > Len(items) THEN Zero
    ELSE DecAdd(IF native THEN items[i].net_native ELSE items[i].base_equivalent,
                sum_field(items, i + 1, native))

fold_tail_drops(exposures, top_n) ==
    IF top_n # None /\ top_n[1] > 0 /\ Len(exposures) > top_n[1]
    THEN SubSeq(exposures, 1, top_n[1])
    ELSE exposures

\* lines 401-413: the tail beyond top_n folded into one OTHER row
fold_tail(exposures, top_n) ==
    IF top_n # None /\ top_n[1] > 0 /\ Len(exposures) > top_n[1]
    THEN Append(SubSeq(exposures, 1, top_n[1]),
                CurrencyExposure("OTHER",
                    quantize_amount(sum_field(SubSeq(exposures, top_n[1] + 1, Len(exposures)),
                                              1, TRUE), 4),
                    quantize_amount(sum_field(SubSeq(exposures, top_n[1] + 1, Len(exposures)),
                                              1, FALSE), 2)))
    ELSE exposures

PortfolioExposureResult(view_base, exposures, priced, unpriced, as_of, unpriced_reasons) ==
    [raised |-> "none", view_base |-> view_base, exposures |-> exposures, priced |-> priced,
     unpriced |-> unpriced, as_of |-> as_of, unpriced_reasons |-> unpriced_reasons]

\* calculate_currency_exposure, latest being what _latest_rates returned
calculate_currency_exposure(pos, latest, top_n, view_base) ==
    LET resolved == resolve_view_base(view_base)
        effective == rates_in_view_base(latest[1], FX_CANONICAL_BASE, resolved.code)
        e == exposure_loop([totals |-> <<>>, priced |-> 0, unpriced |-> 0,
                            reason_map |-> init_reason_map],
                           pos, 1, resolved.code, effective.rates)
        quantized == [j \in 1..Len(e.totals) |->
                         CurrencyExposure(e.totals[j].currency_code,
                                          quantize_amount(e.totals[j].net_native, 4),
                                          quantize_amount(e.totals[j].base_equivalent, 2))]
    IN  IF ~resolved.ok THEN ValidationError
        ELSE IF pos = <<>>
        THEN PortfolioExposureResult(resolved.code, <<>>, 0, 0, None, init_reason_map)
        ELSE IF latest[2] = None \/ DOMAIN latest[1] = {}
        THEN PortfolioExposureResult(
                 resolved.code, <<>>, 0, Len(pos), None,
                 serialize_reason_map(add_reason_all(init_reason_map,
                                                     UNPRICED_REASON_MISSING_RATE, pos, 1)))
        ELSE IF ~effective.ok THEN missing_view_base_error(resolved.code, latest[2])
        ELSE PortfolioExposureResult(
                 resolved.code, fold_tail(sort_exposures(quantized, Len(quantized)), top_n),
                 e.priced, e.unpriced, latest[2], serialize_reason_map(e.reason_map))

PortfolioDailyPnLResult(view_base, value_current, value_previous, as_of, prev_date, current, previous) ==
    [raised |-> "none", view_base |-> view_base,
     pnl |-> IF value_previous = None THEN value_current
             ELSE quantize_amount(DecSub(value_current, value_previous[1]), 2),
     value_current |-> value_current, value_previous |-> value_previous,
     as_of |-> as_of, prev_date |-> prev_date, positions_changed |-> FALSE,
     priced_current |-> current.priced, unpriced_current |-> current.unpriced,
     priced_previous |-> previous.priced, unpriced_previous |-> previous.unpriced,
     unpriced_reasons_current |-> serialize_reason_map(current.reason_map),
     unpriced_reasons_previous |-> serialize_reason_map(previous.reason_map)]

\* calculate_daily_pnl: stamps is what _latest_two_timestamps returned,
\* latest_map and previous_map what _rates_for_timestamp returned for the two
calculate_daily_pnl(pos, stamps, latest_map, previous_map, view_base) ==
    LET resolved == resolve_view_base(view_base)
        none_priced == [priced |-> 0, unpriced |-> 0, reason_map |-> init_reason_map]
        all_missing == [priced |-> 0, unpriced |-> Len(pos),
                        reason_map |-> add_reason_all(init_reason_map,
                                                      UNPRICED_REASON_MISSING_RATE, pos, 1)]
        effective_latest == rates_in_view_base(latest_map, FX_CANONICAL_BASE, resolved.code)
        effective_previous == rates_in_view_base(previous_map, FX_CANONICAL_BASE, resolved.code)
        current == portfolio_value_from_rates(pos, resolved.code, effective_latest.rates)
        previous == portfolio_value_from_rates(pos, resolved.code, effective_previous.rates)
    IN  IF ~resolved.ok THEN ValidationError
        ELSE IF pos = <<>>
        THEN PortfolioDailyPnLResult(resolved.code, quantize_amount(Zero, 2), None, None, None,
                                     none_priced, none_priced)
        ELSE IF stamps[1] = None \/ stamps[2] = None
                  \/ DOMAIN latest_map = {} \/ DOMAIN previous_map = {}
        THEN PortfolioDailyPnLResult(resolved.code, quantize_amount(Zero, 2), None,
                                     stamps[1], stamps[2], all_missing, all_missing)
        ELSE IF ~effective_latest.ok THEN missing_view_base_error(resolved.code, stamps[1])
        ELSE IF ~effective_previous.ok THEN missing_view_base_error(resolved.code, stamps[2])
        ELSE PortfolioDailyPnLResult(resolved.code, quantize_amount(current.total, 2),
                                     Some(quantize_amount(previous.total, 2)),
                                     stamps[1], stamps[2], current, previous)

apply_currency_shock_to_all(rates, currency, shock_factor) ==
    [rates |-> rates, shocked |-> [c \in DOMAIN rates |-> DecMul(rates[c], shock_factor)]]

\* _apply_currency_shock: the mapping it was given, as the call leaves it, and
\* the new mapping it returns
apply_currency_shock(rates, currency, shock_factor) ==
    [rates |-> rates,
     shocked |-> [c \in DOMAIN rates |->
                     IF c = currency THEN DecMul(rates[c], shock_factor) ELSE rates[c]]]

PortfolioWhatIfResult(view_base, shocked_currency, shock_pct, current_value, new_value, as_of) ==
    [raised |-> "none", view_base |-> view_base, shocked_currency |-> shocked_currency,
     shock_pct |-> shock_pct, current_value |-> current_value, new_value |-> new_value,
     delta_value |-> DecSub(new_value, current_value), as_of |-> as_of]

\* a ValidationError raised by simulate_currency_shock: no table is returned
ShockRejected(error) ==
    [result |-> error, effective_rates |-> EmptyRates, shocked_rates |-> EmptyRates]

simulate_currency_shock_partial_book(pos, latest, currency, shock_pct, view_base) ==
    LET resolved == resolve_view_base(view_base)
        effective == rates_in_view_base(latest[1], FX_CANONICAL_BASE, resolved.code)
        current == portfolio_value_from_rates(pos, resolved.code, effective.rates)
        applied == apply_currency_shock(effective.rates, strip_upper(currency),
                                        DecAdd(One, DecDiv(shock_pct, Frac(100, 1))))
        new == portfolio_value_from_rates(pos, resolved.code, applied.shocked)
    IN  IF pos = <<>> THEN ShockRejected(ValidationErrorFor("portfolio_id"))
        ELSE IF ~resolved.ok THEN ShockRejected(ValidationError)
        ELSE IF ~validate_currency_code(currency).ok
        THEN ShockRejected(ValidationErrorFor("currency"))
        ELSE IF DecLT(shock_pct, Frac(0 - 10, 1)) \/ DecLT(Frac(10, 1), shock_pct)
        THEN ShockRejected(ValidationErrorFor("shock_pct"))
        ELSE IF latest[2] = None \/ DOMAIN latest[1] = {}
        THEN ShockRejected(ValidationErrorFor("rates"))
        ELSE IF ~effective.ok
        THEN ShockRejected(missing_view_base_error(resolved.code, latest[2]))
        ELSE IF strip_upper(currency) \notin DOMAIN effective.rates
        THEN ShockRejected(ValidationErrorFor("currency"))
        ELSE [result |-> PortfolioWhatIfResult(resolved.code, strip_upper(currency), shock_pct,
                                               current.total, new.total, latest[2]),
              effective_rates |-> applied.rates, shocked_rates |-> applied.shocked]

\* simulate_currency_shock, latest being what _latest_rates returned: the
\* result or error, and with a result the baseline table as the call leaves
\* it and the shocked table it built
simulate_currency_shock(pos, latest, currency, shock_pct, view_base) ==
    LET resolved == resolve_view_base(view_base)
        effective == rates_in_view_base(latest[1], FX_CANONICAL_BASE, resolved.code)
        current == portfolio_value_from_rates(pos, resolved.code, effective.rates)
        applied == apply_currency_shock(effective.rates, strip_upper(currency),
                                        DecAdd(One, DecDiv(shock_pct, Frac(100, 1))))
        new == portfolio_value_from_rates(pos, resolved.code, applied.shocked)
    IN  IF pos = <<>> THEN ShockRejected(ValidationErrorFor("portfolio_id"))
        ELSE IF ~resolved.ok THEN ShockRejected(ValidationError)
        ELSE IF ~validate_currency_code(currency).ok
        THEN ShockRejected(ValidationErrorFor("currency"))
        ELSE IF DecLT(shock_pct, Frac(0 - 10, 1)) \/ DecLT(Frac(10, 1), shock_pct)
        THEN ShockRejected(ValidationErrorFor("shock_pct"))
        ELSE IF latest[2] = None \/ DOMAIN latest[1] = {}
        THEN ShockRejected(ValidationErrorFor("rates"))
        ELSE IF ~effective.ok
        THEN ShockRejected(missing_view_base_error(resolved.code, latest[2]))
        ELSE IF current.unpriced > 0 THEN ShockRejected(ValidationErrorFor("unpriced_positions"))
        ELSE IF strip_upper(currency) \notin DOMAIN effective.rates
        THEN ShockRejected(ValidationErrorFor("currency"))
        ELSE IF new.unpriced > 0 THEN ShockRejected(ValidationErrorFor("unpriced_positions"))
        ELSE [result |-> PortfolioWhatIfResult(resolved.code, strip_upper(currency), shock_pct,
                                               current.total, new.total, latest[2]),
              effective_rates |-> applied.rates, shocked_rates |-> applied.shocked]

\* normalized.date(): the UTC calendar day of a stored timestamp; timestamps 2
\* and 3 are two instants of one day
UtcDate(timestamp) == (timestamp + 2) \div 2

RECURSIVE ascending(_)
\* timestamps.sort()
ascending(S) ==
    IF S = {} THEN <<>> ELSE ascending(S \ {SetMax(S)}) \o <<SetMax(S)>>

\* the newest n members of a set of timestamps
newest(S, n) == {t \in S : Cardinality({u \in S : u > t}) < n}

recent_daily_timestamps_every_stamp(rows, canonical_base, days) ==
    ascending(newest(StoredTimestamps(rows, canonical_base), days))

\* _recent_daily_timestamps: of the newest days * multiplier rows, the newest
\* timestamp of each of the newest `days` calendar days, ascending
recent_daily_timestamps(rows, canonical_base, days) ==
    LET multiplier == Max(3, IF days < 10 THEN days ELSE 10)
        of_base == {r \in rows : r.base = canonical_base}
        fetched == {r.timestamp : r \in {q \in of_base :
                        Cardinality({n \in of_base : n.timestamp > q.timestamp})
                            < days * multiplier}}
        first_of_day == {t \in fetched :
                            \A u \in fetched : UtcDate(u) = UtcDate(t) => u <= t}
    IN  ascending(newest(first_of_day, days))

PortfolioValueSeriesPoint(date, value) == [date |-> date, value |-> value]

PortfolioValueSeriesResult(view_base, series) ==
    [raised |-> "none", view_base |-> view_base, series |-> series]

RECURSIVE series_loop(_, _, _, _, _, _)
\* the loop over the timestamps: the points so far, or the ValidationError of
\* the first timestamp at which the view base has no rate
series_loop(series, pos, timestamps, i, rates_by_timestamp, view_base) ==
    IF i > Len(timestamps) THEN PortfolioValueSeriesResult(view_base, series)
    ELSE LET timestamp == timestamps[i]
             rates_map == rates_by_timestamp[timestamp]
             effective == rates_in_view_base(rates_map, FX_CANONICAL_BASE, view_base)
             v == portfolio_value_from_rates(pos, view_base, effective.rates)
         IN  IF DOMAIN rates_map = {}
             THEN series_loop(series, pos, timestamps, i + 1, rates_by_timestamp, view_base)
             ELSE IF ~effective.ok THEN missing_view_base_error(view_base, Some(timestamp))
             ELSE IF v.priced = 0
             THEN series_loop(series, pos, timestamps, i + 1, rates_by_timestamp, view_base)
             ELSE series_loop(
                      Append(series, PortfolioValueSeriesPoint(UtcDate(timestamp),
                                                               quantize_amount(v.total, 2))),
                      pos, timestamps, i + 1, rates_by_timestamp, view_base)

\* calculate_portfolio_value_series: timestamps is what _recent_daily_timestamps
\* returned, rates_by_timestamp what _rates_for_timestamps returned
calculate_portfolio_value_series(pos, timestamps, rates_by_timestamp, view_base, days) ==
    LET resolved == resolve_view_base(view_base)
    IN  IF days < 1 \/ days > 365 THEN ValidationErrorFor("days")
        ELSE IF ~resolved.ok THEN ValidationError
        ELSE IF pos = <<>> \/ timestamps = <<>>
        THEN PortfolioValueSeriesResult(resolved.code, <<>>)
        ELSE series_loop(<<>>, pos, timestamps, 1, rates_by_timestamp, resolved.code)


-----------------------------------------------------------------------------
(* Valuation requests over a portfolio and the rate store                  *)

MaxPositions == 3

Position(currency_code, amount, side) ==
    [currency_code |-> currency_code, amount |-> amount, side |-> side]

\* the rows the positions table can hold, in the order portfolios are built.
\* position_manager validates a code before it writes one, the column takes any
\* string: "ZZZ" is a code the registry does not know (as in
\* test_portfolio_value_flags_unknown_currency)
PositionChoices ==
    << Position("USD", Frac(100, 1), "LONG"),
       Position("EUR", Frac(200, 1), "LONG"),
       Position("GBP", Frac(50, 1), "SHORT"),
       Position("ZZZ", Frac(10, 1), "LONG"),
       Position("E~R", Frac(10, 1), "LONG"),
       Position("   ", Frac(10, 1), "LONG") >>

\* the snapshots the refresh paths have persisted
StoredSnapshots ==
    {s \in Snapshots("primary", FX_CANONICAL_BASE) :
        \/ s.timestamp = 1 /\ DOMAIN s.rates = {"EUR", "GBP"} /\ s.rates["EUR"] = <<4, 5>>
        \/ s.timestamp = 2 /\ (DOMAIN s.rates = {"GBP"} \/ s.rates["EUR"] = <<1, 2>>)}
    \cup {s \in Snapshots("fallback", FX_CANONICAL_BASE) :
             s.timestamp = 2 /\ DOMAIN s.rates = {"EUR", "GBP"} /\ s.rates["EUR"] = <<4, 5>>}
    \cup {[base_currency |-> FX_CANONICAL_BASE, source |-> ProviderName("primary"),
            timestamp |-> 3,
            rates |-> [c \in {"EUR", "GBP"} |-> IF c = "EUR" THEN <<4, 5>> ELSE <<1, 2>>]]}

\* the base query parameter: absent, or a code as typed
Views == {None, Some("EUR"), Some("GBP"), Some("TRY"), Some("eur"), Some("ZZZ")}

TopNs == {None, Some(1), Some(2)}

\* the days query parameter of the series requests
Days == {0, 1, 2, 366}

\* the base query parameter of the what-if and of the series requests
ShockViews == {None, Some("EUR"), Some("TRY")}

\* the what-if request bodies: <<currency, shock_pct>>
ShockInputs ==
    { <<"EUR", Frac(5, 1)>>, <<"EUR", Frac(11, 1)>>, <<"GBP", Frac(0 - 10, 1)>>,
      <<"USD", Frac(5, 1)>>, <<"USD", Frac(0 - 10, 1)>>, <<"TRY", Frac(5, 1)>> }

InitVal ==
    /\ last_snapshot = None
    /\ fallback = TRUE
    /\ call = NoCall
    /\ refresh_state = EmptyState
    /\ throttle_seconds = 0
    /\ now = 0
    /\ fx_rates = {}
    /\ positions = <<>>
    /\ response = NoResponse

\* a row written to the positions table, between two requests
InsertPosition ==
    \E k \in 1..Len(PositionChoices) :
        /\ response = NoResponse
        /\ Len(positions) < MaxPositions
        /\ \A j \in (k + 1)..Len(PositionChoices) :
               \A i \in 1..Len(positions) : positions[i] # PositionChoices[j]
        /\ positions' = Append(positions, PositionChoices[k])
        /\ UNCHANGED <<last_snapshot, fallback, call, refresh_state, throttle_seconds, now,
                       fx_rates, response>>

\* rate_store.persist_snapshot of a snapshot a refresh obtained, between two
\* requests
PersistSnapshot ==
    \E s \in StoredSnapshots :
        /\ response = NoResponse
        /\ fx_rates' = persist_snapshot(fx_rates, s)
        /\ UNCHANGED <<last_snapshot, fallback, call, refresh_state, throttle_seconds, now,
                       positions, response>>

after_read_expires(record, rows, pos) == [record |-> record, rows |-> {}, pos |-> pos]

\* the orchestrator's record, the rate rows and the positions once a request
\* has run its queries: _fetch_positions and the FxRate queries select, nothing
\* is added, deleted or committed
after_read(record, rows, pos) == [record |-> record, rows |-> rows, pos |-> pos]

\* a request writes nothing
ReadOnly ==
    /\ last_snapshot' = after_read(last_snapshot, fx_rates, positions).record
    /\ fx_rates' = after_read(last_snapshot, fx_rates, positions).rows
    /\ positions' = after_read(last_snapshot, fx_rates, positions).pos
    /\ UNCHANGED <<fallback, call, refresh_state, throttle_seconds, now>>

\* Requests are served one at a time: a request starts when the previous
\* response has been sent.
Idle == response = NoResponse

\* the response is sent and the request is over
Respond ==
    /\ response # NoResponse
    /\ response' = NoResponse
    /\ UNCHANGED <<last_snapshot, fallback, call, refresh_state, throttle_seconds, now,
                   fx_rates, positions>>

\* GET .../value?base=view
PortfolioValue ==
    /\ Idle
    /\ \E view \in Views, latest \in latest_rates(fx_rates, FX_CANONICAL_BASE) :
        /\ response' = [op |-> "calculate_portfolio_value", view |-> view, top_n |-> None,
                        rates |-> latest[1], previous_rates |-> EmptyRates,
                        result |-> calculate_portfolio_value(positions, latest, view)]
        /\ ReadOnly

\* GET .../exposure?base=view&top_n=n
CurrencyExposureGet ==
    /\ Idle
    /\ \E view \in Views, top_n \in TopNs, latest \in latest_rates(fx_rates, FX_CANONICAL_BASE) :
        /\ response' = [op |-> "calculate_currency_exposure", view |-> view, top_n |-> top_n,
                        rates |-> latest[1], previous_rates |-> EmptyRates,
                        result |-> calculate_currency_exposure(positions, latest, top_n, view)]
        /\ ReadOnly

\* GET .../pnl/daily?base=view
DailyPnl ==
    Idle /\
    LET stamps == latest_two_timestamps(fx_rates, FX_CANONICAL_BASE)
        Maps(stamp) == IF stamp = None THEN {EmptyRates}
                       ELSE rates_for_timestamp(fx_rates, FX_CANONICAL_BASE, stamp[1])
    IN  \E view \in Views, latest_map \in Maps(stamps[1]), previous_map \in Maps(stamps[2]) :
            /\ response' = [op |-> "calculate_daily_pnl", view |-> view, top_n |-> None,
                            rates |-> latest_map, previous_rates |-> previous_map,
                            result |-> calculate_daily_pnl(positions, stamps, latest_map,
                                                           previous_map, view)]
            /\ ReadOnly

\* POST .../whatif?base=view with body {currency, shock_pct}
WhatIf ==
    /\ Idle
    /\ \E view \in ShockViews, shock \in ShockInputs,
          latest \in latest_rates(fx_rates, FX_CANONICAL_BASE) :
        LET sim == simulate_currency_shock(positions, latest, shock[1], shock[2], view)
        IN  /\ response' = [op |-> "simulate_currency_shock", view |-> view, top_n |-> None,
                            rates |-> latest[1], previous_rates |-> EmptyRates,
                            currency |-> shock[1], shock_pct |-> shock[2],
                            result |-> sim.result, effective_rates |-> sim.effective_rates,
                            shocked_rates |-> sim.shocked_rates]
            /\ ReadOnly

\* GET .../value/series?base=view&days=n
ValueSeries ==
    Idle /\
    LET Maps(t) == rates_for_timestamp(fx_rates, FX_CANONICAL_BASE, t)
    IN  \E view \in ShockViews, days \in Days, m1 \in Maps(1), m2 \in Maps(2), m3 \in Maps(3) :
            LET timestamps == recent_daily_timestamps(fx_rates, FX_CANONICAL_BASE, days)
                rates_by_timestamp ==
                    [t \in {timestamps[i] : i \in 1..Len(timestamps)} |->
                        IF t = 1 THEN m1 ELSE IF t = 2 THEN m2 ELSE m3]
            IN  /\ response' = [op |-> "calculate_portfolio_value_series", view |-> view,
                                top_n |-> None, days |-> days, timestamps |-> timestamps,
                                rates_by_timestamp |-> rates_by_timestamp,
                                result |-> calculate_portfolio_value_series(
                                               positions, timestamps, rates_by_timestamp,
                                               view, days)]
                /\ ReadOnly

NextVal ==
    \/ InsertPosition \/ PersistSnapshot
    \/ PortfolioValue \/ CurrencyExposureGet \/ DailyPnl \/ WhatIf \/ ValueSeries
    \/ GetSnapshotInfo \/ Respond

SpecVal == InitVal /\ [][NextVal]_vars

-----------------------------------------------------------------------------
(* Valuation claims                                                        *)

ValuationOps == {"calculate_portfolio_value", "calculate_currency_exposure",
                 "calculate_daily_pnl"}

\* the latest request was a valuation and returned a result
Valued(op) == response.op = op /\ response.result.raised = "none"

Listed(reasons) ==
    Reason(reasons, UNPRICED_REASON_MISSING_RATE)
        \cup Reason(reasons, UNPRICED_REASON_UNKNOWN_CURRENCY)

\* the positions whose currency code a reason map lists
ListedPositions(reasons) ==
    {i \in 1..Len(positions) : strip_upper(positions[i].currency_code) \in Listed(reasons)}

\* every position is counted once, and the unpriced ones are those whose
\* currency the reason map lists
Accounted(priced, unpriced, reasons) ==
    /\ priced + unpriced = Len(positions)
    /\ unpriced = Cardinality(ListedPositions(reasons))

\* C6: in every result of calculate_portfolio_value, calculate_currency_exposure
\* and calculate_daily_pnl (current and previous sides), priced + unpriced is
\* the number of positions and the currency of every unpriced position is in
\* the reason map under missing_rate or unknown_currency.
C6_UnpricedNeverDropped ==
    /\ Valued("calculate_portfolio_value") \/ Valued("calculate_currency_exposure") =>
           Accounted(response.result.priced, response.result.unpriced,
                     response.result.unpriced_reasons)
    /\ Valued("calculate_daily_pnl") =>
           /\ Accounted(response.result.priced_current, response.result.unpriced_current,
                        response.result.unpriced_reasons_current)
           /\ Accounted(response.result.priced_previous, response.result.unpriced_previous,
                        response.result.unpriced_reasons_previous)

\* the positions whose code fails validation: not ASCII, or not in the registry
FailsValidation ==
    {i \in 1..Len(positions) :
        /\ strip_upper(positions[i].currency_code) # ""
        /\ \/ ~isascii(strip_upper(positions[i].currency_code))
           \/ ~is_allowed(positions[i].currency_code)}

UnknownNotMissing(unpriced, reasons) ==
    /\ unpriced >= Cardinality(FailsValidation)
    /\ \A i \in FailsValidation :
           /\ strip_upper(positions[i].currency_code)
                  \in Reason(reasons, UNPRICED_REASON_UNKNOWN_CURRENCY)
           /\ strip_upper(positions[i].currency_code)
                  \notin Reason(reasons, UNPRICED_REASON_MISSING_RATE)

\* C7: in every valuation result, whatever the rate store holds (nothing
\* included), a position whose code is not ASCII or not in the registry is
\* counted unpriced, its code is under unknown_currency and never under
\* missing_rate.
C7_UnknownCurrencyNeverMissingRate ==
    /\ Valued("calculate_portfolio_value") \/ Valued("calculate_currency_exposure") =>
           UnknownNotMissing(response.result.unpriced, response.result.unpriced_reasons)
    /\ Valued("calculate_daily_pnl") =>
           /\ UnknownNotMissing(response.result.unpriced_current,
                                response.result.unpriced_reasons_current)
           /\ UnknownNotMissing(response.result.unpriced_previous,
                                response.result.unpriced_reasons_previous)

NoSnapshotStored == StoredTimestamps(fx_rates, FX_CANONICAL_BASE) = {}

\* C8: with no snapshot persisted for the canonical base and at least one
\* position, calculate_portfolio_value and calculate_currency_exposure raise
\* nothing for a registered view base and return value 0 / no exposures,
\* priced = 0, unpriced = number of positions, as_of = null, with every
\* position's currency listed under missing_rate.
C8_NoSnapshotAllMissingRate ==
    (/\ response.op \in {"calculate_portfolio_value", "calculate_currency_exposure"}
     /\ NoSnapshotStored /\ positions # <<>> /\ resolve_view_base(response.view).ok) =>
        /\ response.result.raised = "none"
        /\ response.op = "calculate_portfolio_value" => response.result.value = Zero
        /\ response.op = "calculate_currency_exposure" => response.result.exposures = <<>>
        /\ response.result.priced = 0
        /\ response.result.unpriced = Len(positions)
        /\ response.result.as_of = None
        /\ \A i \in 1..Len(positions) :
               strip_upper(positions[i].currency_code)
                   \in Reason(response.result.unpriced_reasons, UNPRICED_REASON_MISSING_RATE)

\* the result counts position i as priced in view base `view` under table `stored`
PricedIn(i, view, stored) ==
    LET code == strip_upper(positions[i].currency_code)
    IN  /\ code # "" /\ isascii(code) /\ code \in RegistryCodes
        /\ code = view \/ (code \in DOMAIN stored /\ stored[code] # Zero)

Sign(side) == IF side = "LONG" THEN One ELSE DecNeg(One)

RECURSIVE SignedSum(_, _, _)
\* sum over the priced positions i..n of sign(side) x amount x effective rate,
\* the effective rate being 1 in the view base and 1 / stored rate otherwise
SignedSum(i, view, stored) ==
    IF i > Len(positions) THEN Zero
    ELSE IF ~PricedIn(i, view, stored) THEN SignedSum(i + 1, view, stored)
    ELSE DecAdd(DecMul(Sign(positions[i].side),
                       DecMul(positions[i].amount,
                              IF strip_upper(positions[i].currency_code) = view THEN One
                              ELSE DecDiv(One, stored[strip_upper(positions[i].currency_code)]))),
                SignedSum(i + 1, view, stored))

HalfCent == Frac(1, 200)

\* v is x at the 2-place display precision
Displays(v, x) == 100 % v[2] = 0 /\ DecLE(DecAbs(DecSub(v, x)), HalfCent)

\* every rate of the table the request read is a stored row at timestamp t
ReadFromStore(table, t) ==
    \A c \in DOMAIN table \ {FX_CANONICAL_BASE} :
        \E r \in RowsAt(fx_rates, FX_CANONICAL_BASE, t) : r.target = c /\ r.rate = table[c]

\* C9: with the view base equal to the canonical base, calculate_portfolio_value
\* returns, at the 2-place display precision, the sum over the priced positions
\* of sign(side) x amount x effective rate (1 in the view base, 1 / stored rate
\* otherwise; LONG +, SHORT -), with as_of the timestamp of the latest snapshot
\* and the rates those stored at it.
C9_ValueIsSignedSumAtCanonicalBase ==
    (/\ response.op = "calculate_portfolio_value"
     /\ resolve_view_base(response.view).ok
     /\ resolve_view_base(response.view).code = FX_CANONICAL_BASE
     /\ positions # <<>> /\ ~NoSnapshotStored) =>
        /\ response.result.raised = "none"
        /\ response.result.as_of = Some(SetMax(StoredTimestamps(fx_rates, FX_CANONICAL_BASE)))
        /\ ReadFromStore(response.rates, response.result.as_of[1])
        /\ Displays(response.result.value,
                    SignedSum(1, FX_CANONICAL_BASE, response.rates))
        /\ response.result.priced =
               Cardinality({i \in 1..Len(positions) :
                               PricedIn(i, FX_CANONICAL_BASE, response.rates)})
        /\ response.result.priced + response.result.unpriced = Len(positions)

ExamplePortfolio ==
    positions = << Position("USD", Frac(100, 1), "LONG"), Position("EUR", Frac(200, 1), "LONG"),
                   Position("GBP", Frac(50, 1), "SHORT") >>

ExampleRates ==
    /\ DOMAIN response.rates = {"USD", "EUR", "GBP"}
    /\ response.rates["EUR"] = Frac(8, 10) /\ response.rates["GBP"] = Frac(5, 10)

\* USD 100 LONG, EUR 200 LONG, GBP 50 SHORT at EUR 0.8, GBP 0.5 is 250.00 USD
C9_Witness ==
    /\ response.op = "calculate_portfolio_value" /\ response.view = None
    /\ ExamplePortfolio /\ ExampleRates
    /\ response.result.value = Frac(250, 1)
    /\ response.result.priced = 3 /\ response.result.unpriced = 0

\* calculate_portfolio_value of the same positions and rates in the canonical base
AtCanonicalBase ==
    calculate_portfolio_value(positions, <<response.rates, response.result.as_of>>, None)

ExampleInGBP ==
    /\ response.op = "calculate_portfolio_value" /\ response.view = Some("GBP")
    /\ ExamplePortfolio /\ ExampleRates
    /\ response.result.value = Frac(125, 1)

-----------------------------------------------------------------------------
(* What-if shock claims                                                    *)

Shocked == response.op = "simulate_currency_shock" /\ response.result.raised = "none"

\* 1 + shock_pct / 100
ShockFactor == DecAdd(One, DecDiv(response.shock_pct, Frac(100, 1)))

RECURSIVE ValueUnder(_, _, _)
\* sum over the positions i..n of sign(side) x amount x rate, the product taken
\* under the decimal context and the rate being 1 in the view base and
\* table[currency] otherwise
ValueUnder(i, view, table) ==
    IF i > Len(positions) THEN Zero
    ELSE DecAdd(DecMul(Sign(positions[i].side),
                       context_multiply(positions[i].amount,
                              IF strip_upper(positions[i].currency_code) = view THEN One
                              ELSE table[strip_upper(positions[i].currency_code)])),
                ValueUnder(i + 1, view, table))

ShockAsked == response.op = "simulate_currency_shock"

\* the four conditions of a what-if result, read from the request and the tables
ShockAdmissible ==
    /\ positions # <<>>
    /\ DecLE(Frac(0 - 10, 1), response.shock_pct) /\ DecLE(response.shock_pct, Frac(10, 1))
    /\ ~NoSnapshotStored
    /\ resolve_view_base(response.view).ok
    /\ \A i \in 1..Len(positions) :
           PricedIn(i, resolve_view_base(response.view).code, response.rates)

ShockValues == {"current_value", "new_value", "delta_value"}

\* C12: simulate_currency_shock returns a result only when the portfolio has a
\* position, shock_pct is in [-10, 10], a rate snapshot exists and every
\* position is priced under the baseline table; when one of these fails it
\* raises ValidationError and returns no current, new or delta value.
C12_ShockOnlyOnFullyPricedBook ==
    ShockAsked =>
        /\ response.result.raised = "none" => ShockAdmissible
        /\ ~ShockAdmissible =>
               /\ response.result.raised = "ValidationError"
               /\ DOMAIN response.result \cap ShockValues = {}
               /\ response.shocked_rates = EmptyRates

\* a book with a priced and an unpriced position, everything else in order, is
\* rejected
C12_Witness ==
    /\ ShockAsked /\ response.view = None /\ ~NoSnapshotStored
    /\ response.currency = "EUR" /\ response.shock_pct = Frac(5, 1)
    /\ "EUR" \in DOMAIN response.rates
    /\ \E i \in 1..Len(positions) : PricedIn(i, "USD", response.rates)
    /\ \E i \in 1..Len(positions) : ~PricedIn(i, "USD", response.rates)
    /\ response.result.raised = "ValidationError"
    /\ response.result.field = "unpriced_positions"

\* the what-if shocks the currency the portfolio is viewed in
ShockOfViewBase ==
    /\ ShockAsked /\ resolve_view_base(response.view).ok
    /\ strip_upper(response.currency) = resolve_view_base(response.view).code

\* the view base can be derived from the snapshot the what-if read
ViewBaseQuoted ==
    LET view == resolve_view_base(response.view).code
    IN  \/ view = FX_CANONICAL_BASE
        \/ view \in DOMAIN response.rates /\ response.rates[view] # Zero

\* C29: for a fully priced portfolio and a shock_pct in [-10, 10], a what-if on
\* the view-base currency itself returns new_value = current_value and
\* delta_value = 0: the shocked table differs from the baseline only in the
\* view base's own entry, and a position held in the view base is converted at
\* rate 1, not at that entry.
C29_ViewBaseShockChangesNothing ==
    (ShockOfViewBase /\ ShockAdmissible /\ ViewBaseQuoted) =>
        /\ response.result.raised = "none"
        /\ response.result.new_value = response.result.current_value
        /\ response.result.delta_value = Zero
        /\ DOMAIN response.shocked_rates = DOMAIN response.effective_rates
        /\ \A c \in DOMAIN response.effective_rates \ {response.result.view_base} :
               response.shocked_rates[c] = response.effective_rates[c]
        /\ response.shocked_rates[response.result.view_base] =
               DecMul(response.effective_rates[response.result.view_base], ShockFactor)

\* EUR shocked by +5% in a EUR view of a book that holds EUR: the table's EUR
\* entry becomes 1.05 and the value stays
C29_Witness ==
    /\ ShockOfViewBase /\ ShockAdmissible /\ response.result.raised = "none"
    /\ response.view = Some("EUR") /\ response.shock_pct = Frac(5, 1)
    /\ \E i \in 1..Len(positions) : strip_upper(positions[i].currency_code) = "EUR"
    /\ \E i \in 1..Len(positions) : strip_upper(positions[i].currency_code) # "EUR"
    /\ response.shocked_rates["EUR"] = Frac(105, 100)
    /\ response.result.current_value # Zero
    /\ response.result.delta_value = Zero

-----------------------------------------------------------------------------
(* Exposure claims                                                         *)

ExposureView == resolve_view_base(response.view).code

\* the currencies the exposure request priced
PricedCodes ==
    {strip_upper(positions[i].currency_code) :
         i \in {j \in 1..Len(positions) : PricedIn(j, ExposureView, response.rates)}}

RECURSIVE NetOf(_, _, _)
\* the signed native amount (native = TRUE) or the signed base equivalent of
\* the positions i..n held in currency code, a unit of it being worth
\* R[view] / R[code] in the view base
NetOf(i, code, native) ==
    IF i > Len(positions) THEN Zero
    ELSE IF strip_upper(positions[i].currency_code) # code THEN NetOf(i + 1, code, native)
    ELSE DecAdd(DecMul(Sign(positions[i].side),
                       DecMul(positions[i].amount,
                              IF native \/ code = ExposureView THEN One
                              ELSE DecDiv(response.rates[ExposureView],
                                          response.rates[code]))),
                NetOf(i + 1, code, native))

\* the exposure entry of a priced currency
EntryOf(code) ==
    CurrencyExposure(code, quantize_amount(NetOf(1, code, TRUE), 4),
                     quantize_amount(NetOf(1, code, FALSE), 2))

RECURSIVE SumOver(_, _)
\* the plain sum of a field over the entries of a set of currencies
SumOver(codes, native) ==
    IF codes = {} THEN Zero
    ELSE LET c == CHOOSE x \in codes : TRUE
         IN  DecAdd(IF native THEN EntryOf(c).net_native ELSE EntryOf(c).base_equivalent,
                    SumOver(codes \ {c}, native))

Descending(entries) ==
    \A j \in 1..(Len(entries) - 1) :
        DecLE(DecAbs(entries[j + 1].base_equivalent), DecAbs(entries[j].base_equivalent))

\* entries lists each currency of codes once, with its entry, largest first
ListsOnce(entries, codes) ==
    /\ Len(entries) = Cardinality(codes)
    /\ {entries[j].currency_code : j \in 1..Len(entries)} = codes
    /\ \A j \in 1..Len(entries) : entries[j] = EntryOf(entries[j].currency_code)
    /\ Descending(entries)

Folds == /\ response.top_n # None /\ response.top_n[1] > 0
         /\ Cardinality(PricedCodes) > response.top_n[1]

\* C13: calculate_currency_exposure returns one entry per priced currency
\* sorted by descending |base_equivalent|; when top_n > 0 and more than top_n
\* currencies are priced the result is the top_n largest followed by one OTHER
\* entry whose net_native and base_equivalent are the plain sums of the
\* collapsed entries, so the total base_equivalent is the same with and without
\* top_n; when top_n is absent or at least the currency count there is no OTHER
\* entry.
C13_ExposureTopN ==
    (Valued("calculate_currency_exposure") /\ ~NoSnapshotStored /\ positions # <<>>) =>
        LET entries == response.result.exposures
            n == response.top_n[1]
            head == SubSeq(entries, 1, n)
            kept == {head[j].currency_code : j \in 1..Len(head)}
        IN  IF Folds
            THEN /\ Len(entries) = n + 1
                 /\ kept \subseteq PricedCodes
                 /\ ListsOnce(head, kept)
                 /\ \A c \in PricedCodes \ kept :
                        DecLE(DecAbs(EntryOf(c).base_equivalent),
                              DecAbs(entries[n].base_equivalent))
                 /\ entries[n + 1] = CurrencyExposure("OTHER",
                                                      SumOver(PricedCodes \ kept, TRUE),
                                                      SumOver(PricedCodes \ kept, FALSE))
                 /\ sum_field(entries, 1, FALSE) = SumOver(PricedCodes, FALSE)
            ELSE /\ ListsOnce(entries, PricedCodes)
                 /\ \A j \in 1..Len(entries) : entries[j].currency_code # "OTHER"

\* top_n = 2 on the three-currency example book: EUR 250.00, USD 100.00 and
\* OTHER holding GBP's -50 native, -100.00 base
C13_Witness ==
    /\ Valued("calculate_currency_exposure") /\ response.view = None
    /\ response.top_n = Some(2) /\ ExamplePortfolio /\ ExampleRates
    /\ response.result.exposures =
           << CurrencyExposure("EUR", Frac(200, 1), Frac(250, 1)),
              CurrencyExposure("USD", Frac(100, 1), Frac(100, 1)),
              CurrencyExposure("OTHER", Frac(0 - 50, 1), Frac(0 - 100, 1)) >>

-----------------------------------------------------------------------------
(* Daily P&L claims                                                        *)

RECURSIVE ValueIn(_, _, _)
\* the value of the positions i..n in the view base under a stored table: the
\* sum over the priced ones of sign(side) x amount x R[view] / R[currency]
ValueIn(i, view, stored) ==
    IF i > Len(positions) THEN Zero
    ELSE IF ~PricedIn(i, view, stored) THEN ValueIn(i + 1, view, stored)
    ELSE DecAdd(DecMul(Sign(positions[i].side),
                       DecMul(positions[i].amount,
                              IF strip_upper(positions[i].currency_code) = view THEN One
                              ELSE DecDiv(stored[view],
                                          stored[strip_upper(positions[i].currency_code)]))),
                ValueIn(i + 1, view, stored))

TwoTimestamps == Cardinality(StoredTimestamps(fx_rates, FX_CANONICAL_BASE)) >= 2

LatestTimestamp == SetMax(StoredTimestamps(fx_rates, FX_CANONICAL_BASE))

SecondLatestTimestamp ==
    SetMax(StoredTimestamps(fx_rates, FX_CANONICAL_BASE) \ {LatestTimestamp})

\* both values are computed, each under its own timestamp's rates, and pnl is
\* their difference
BothSidesValued ==
    LET r == response.result
    IN  /\ r.as_of = Some(LatestTimestamp) /\ r.prev_date = Some(SecondLatestTimestamp)
        /\ ReadFromStore(response.rates, LatestTimestamp)
        /\ ReadFromStore(response.previous_rates, SecondLatestTimestamp)
        /\ Displays(r.value_current, ValueIn(1, r.view_base, response.rates))
        /\ r.value_previous # None
        /\ Displays(r.value_previous[1], ValueIn(1, r.view_base, response.previous_rates))
        /\ r.pnl = DecSub(r.value_current, r.value_previous[1])

NoPrevious ==
    response.result.value_previous = None /\ response.result.pnl = response.result.value_current

\* The statement without the condition on the portfolio: with two stored
\* timestamps both values are computed and pnl is their difference, with fewer
\* value_previous is null and pnl = value_current.
C14_DailyPnlOfAnyPortfolio ==
    Valued("calculate_daily_pnl") => IF TwoTimestamps THEN BothSidesValued ELSE NoPrevious

\* C14: calculate_daily_pnl of a portfolio with at least one position: when two
\* distinct rate timestamps exist, value_current and value_previous are the
\* portfolio values under the latest and the second-latest timestamp's rates,
\* each computed from its own table, and pnl = value_current - value_previous;
\* when fewer than two exist, or the portfolio has no position, value_previous
\* is null and pnl equals value_current.
C14_DailyPnl ==
    Valued("calculate_daily_pnl") =>
        IF TwoTimestamps /\ positions # <<>> THEN BothSidesValued ELSE NoPrevious

\* the example book, worth 250.00 at the second-latest timestamp (EUR 0.8,
\* GBP 0.5) and 496.88 at the latest (EUR 0.5, GBP 16): pnl 246.88
C14_Witness ==
    /\ Valued("calculate_daily_pnl") /\ TwoTimestamps /\ ExamplePortfolio
    /\ response.view = None
    /\ DOMAIN response.rates = {"USD", "EUR", "GBP"}
    /\ DOMAIN response.previous_rates = {"USD", "EUR", "GBP"}
    /\ response.rates["EUR"] = Frac(1, 2) /\ response.rates["GBP"] = Frac(16, 1)
    /\ response.previous_rates["EUR"] = Frac(4, 5)
    /\ response.result.value_current = Frac(49688, 100)
    /\ response.result.value_previous = Some(Frac(250, 1))
    /\ response.result.pnl = Frac(24688, 100)

\* the current-side figures of the daily P&L are those calculate_portfolio_value
\* returns for the same positions, view base and store
CurrentSideIsPortfolioValue ==
    \E latest \in latest_rates(fx_rates, FX_CANONICAL_BASE) :
        LET v == calculate_portfolio_value(positions, latest, response.view)
        IN  /\ v.raised = "none"
            /\ response.result.value_current = v.value
            /\ response.result.priced_current = v.priced
            /\ response.result.unpriced_current = v.unpriced
            /\ response.result.unpriced_reasons_current = v.unpriced_reasons

\* C26: whenever at least one rate timestamp is persisted, exactly one
\* included, the value_current, priced_current, unpriced_current and current
\* reasons of calculate_daily_pnl equal the value, priced, unpriced and reasons
\* calculate_portfolio_value returns for the same portfolio and view base.
C26_PnlCurrentSideIsPortfolioValue ==
    (/\ response.op = "calculate_daily_pnl" /\ response.result.raised = "none"
     /\ ~NoSnapshotStored) =>
        CurrentSideIsPortfolioValue

-----------------------------------------------------------------------------
(* Value series claims                                                     *)

SeriesAsked == response.op = "calculate_portfolio_value_series"

\* the latest stored timestamp of a calendar day that has one
LatestOfDay(date) ==
    SetMax({t \in StoredTimestamps(fx_rates, FX_CANONICAL_BASE) : UtcDate(t) = date})

\* a point of the series is the value of the portfolio, some position priced,
\* under the rates stored at the latest timestamp of the point's day
PointOfItsDay(point, view) ==
    /\ \E t \in StoredTimestamps(fx_rates, FX_CANONICAL_BASE) : UtcDate(t) = point.date
    /\ LatestOfDay(point.date) \in DOMAIN response.rates_by_timestamp
    /\ LET table == response.rates_by_timestamp[LatestOfDay(point.date)]
       IN  /\ ReadFromStore(table, LatestOfDay(point.date))
           /\ \E i \in 1..Len(positions) : PricedIn(i, view, table)
           /\ Displays(point.value, ValueIn(1, view, table))

\* C15: calculate_portfolio_value_series rejects days outside 1..365 with a
\* ValidationError; a series it returns has at most `days` points, in strictly
\* ascending date order (so at most one per UTC day), each valued with the
\* rates of the latest timestamp within its day, and none for a day on which
\* no position could be priced.
C15_SeriesOnePointPerDay ==
    SeriesAsked =>
        LET series == response.result.series
        IN  /\ (response.days < 1 \/ response.days > 365) =>
                   /\ response.result.raised = "ValidationError"
                   /\ response.result.field = "days"
            /\ response.result.raised = "none" =>
                   /\ response.days \in 1..365
                   /\ Len(series) <= response.days
                   /\ \A j \in 1..(Len(series) - 1) : series[j].date < series[j + 1].date
                   /\ \A j \in 1..Len(series) :
                          PointOfItsDay(series[j], response.result.view_base)

\* days = 2 with three stored timestamps, the later two on one day: two points,
\* the second valued at timestamp 3 (250.00) and not at timestamp 2 (496.88)
C15_Witness ==
    /\ SeriesAsked /\ response.days = 2 /\ response.view = None /\ ExamplePortfolio
    /\ StoredTimestamps(fx_rates, FX_CANONICAL_BASE) = {1, 2, 3}
    /\ \E r \in RowsAt(fx_rates, FX_CANONICAL_BASE, 2) : r.target = "EUR" /\ r.rate = Frac(1, 2)
    /\ response.result.raised = "none"
    /\ response.result.series = << PortfolioValueSeriesPoint(1, Frac(250, 1)),
                                   PortfolioValueSeriesPoint(2, Frac(250, 1)) >>

\* the calendar days on which rates are persisted
StoredDays == {UtcDate(t) : t \in StoredTimestamps(fx_rates, FX_CANONICAL_BASE)}

\* the n most recent of them
RecentDays(n) == {d \in StoredDays : Cardinality({e \in StoredDays : e > d}) < n}

\* some position can be priced under whichever table the day's latest
\* timestamp gives
PriceableOn(date, view) ==
    \A table \in rates_for_timestamp(fx_rates, FX_CANONICAL_BASE, LatestOfDay(date)) :
        \E i \in 1..Len(positions) : PricedIn(i, view, table)

\* C25: when rates are persisted on at least `days` distinct UTC calendar days
\* and the portfolio is priceable on each of the `days` most recent ones, the
\* series has exactly `days` points, those of the `days` most recent days,
\* however many rate rows a day holds.
C25_SeriesCoversRequestedDays ==
    (/\ SeriesAsked /\ response.result.raised = "none"
     /\ response.days \in 1..365
     /\ Cardinality(StoredDays) >= response.days
     /\ \A d \in RecentDays(response.days) : PriceableOn(d, response.result.view_base)) =>
        /\ Len(response.result.series) = response.days
        /\ {response.result.series[j].date : j \in 1..Len(response.result.series)} =
               RecentDays(response.days)

-----------------------------------------------------------------------------
(* View base claims                                                        *)

RequestedBase == resolve_view_base(response.view).code

\* the view base is not the canonical base and the table has no rate for it,
\* or a zero rate
Underivable(table) ==
    /\ DOMAIN table # {}
    /\ RequestedBase # FX_CANONICAL_BASE
    /\ RequestedBase \notin DOMAIN table \/ table[RequestedBase] = Zero

\* the ValidationError of a view base without a rate in the snapshot at as_of
RaisedForBase(as_of) ==
    /\ response.result.raised = "ValidationError"
    /\ response.result.field = "base"
    /\ "view_base" \in DOMAIN response.result /\ response.result.view_base = RequestedBase
    /\ "as_of" \in DOMAIN response.result /\ response.result.as_of = Some(as_of)

\* the timestamps of a series request at which the view base has no rate
UnderivableStamps ==
    {j \in 1..Len(response.timestamps) :
        Underivable(response.rates_by_timestamp[response.timestamps[j]])}

\* the request passes the checks the operation makes before it reads a snapshot
ReachesSnapshot ==
    /\ response.op # "calculate_daily_pnl" \/ TwoTimestamps
    /\ SeriesAsked => response.days \in 1..365
    /\ ShockAsked =>
           /\ validate_currency_code(response.currency).ok
           /\ DecLE(Frac(0 - 10, 1), response.shock_pct)
           /\ DecLE(response.shock_pct, Frac(10, 1))

\* what the operation does when the view base has no rate in a snapshot it reads
RaisesWhenUnderivable ==
    /\ (~SeriesAsked /\ response.op # "calculate_daily_pnl" /\ Underivable(response.rates)) =>
           RaisedForBase(LatestTimestamp)
    /\ (response.op = "calculate_daily_pnl" /\ Underivable(response.rates)) =>
           RaisedForBase(LatestTimestamp)
    /\ (/\ response.op = "calculate_daily_pnl" /\ ~Underivable(response.rates)
        /\ Underivable(response.previous_rates)) =>
           RaisedForBase(SecondLatestTimestamp)
    /\ (SeriesAsked /\ UnderivableStamps # {}) =>
           RaisedForBase(response.timestamps[
               CHOOSE j \in UnderivableStamps : \A k \in UnderivableStamps : j <= k])

ViewBaseOps == ValuationOps \cup {"calculate_portfolio_value_series",
                                  "simulate_currency_shock"}

ValuationRequest == response.op \in ViewBaseOps /\ resolve_view_base(response.view).ok

\* The statement for every request: whatever the portfolio and the other
\* arguments, a view base without a rate in the snapshot is a ValidationError
\* naming field base, the view base and the snapshot's timestamp.
C16_MissingViewBaseAlwaysRaises ==
    (ValuationRequest /\ ~NoSnapshotStored) => RaisesWhenUnderivable

\* C16: a valuation operation on a portfolio with at least one position, once
\* its own argument checks pass and (daily P&L) two timestamps are stored, fails
\* with a ValidationError naming field base, the requested view base and the
\* snapshot's timestamp when the view base differs from the canonical base and
\* has no rate, or a zero rate, in a snapshot it reads; it returns no value and
\* marks no position unpriced.
C16_MissingViewBaseRaises ==
    (ValuationRequest /\ ~NoSnapshotStored /\ positions # <<>> /\ ReachesSnapshot) =>
        RaisesWhenUnderivable

\* GET value?base=GBP on a snapshot whose GBP rate is zero
C16_Witness ==
    /\ response.op = "calculate_portfolio_value" /\ response.view = Some("GBP")
    /\ positions # <<>> /\ DOMAIN response.rates = {"USD", "GBP"}
    /\ response.rates["GBP"] = Zero
    /\ RaisedForBase(2)

-----------------------------------------------------------------------------
(* Rate table claims                                                       *)

\* the currencies with a persisted rate against the canonical base
QuotedCurrencies == {r.target : r \in {q \in fx_rates : q.base = FX_CANONICAL_BASE}}

\* the rates of a currency's newest persisted rows
LatestRatesOf(currency) ==
    LET own == {r \in fx_rates : r.base = FX_CANONICAL_BASE /\ r.target = currency}
    IN  {r.rate : r \in {q \in own : \A o \in own : o.timestamp <= q.timestamp}}

\* C17: the rate table of a valuation call holds, for each held currency that
\* has a persisted rate against the canonical base, the rate of that
\* currency's latest row, and a position in such a currency is not reported
\* missing_rate, even when another currency has a newer row.
C17_LatestRowPerCurrency ==
    (Valued("calculate_portfolio_value") /\ positions # <<>> /\ ~NoSnapshotStored
     /\ RequestedBase = FX_CANONICAL_BASE) =>
        \A i \in 1..Len(positions) :
            LET held == strip_upper(positions[i].currency_code)
            IN  held \in QuotedCurrencies =>
                    /\ held \in DOMAIN response.rates
                    /\ response.rates[held] \in LatestRatesOf(held)
                    /\ Zero \notin LatestRatesOf(held) =>
                           held \notin Reason(response.result.unpriced_reasons,
                                              UNPRICED_REASON_MISSING_RATE)

-----------------------------------------------------------------------------
(* Read operations                                                         *)

ReadOps == {"get_snapshot_info"} \cup ViewBaseOps

-----------------------------------------------------------------------------
(* Rebasing a rate table                                                   *)

\* the rates a table may quote, zero among them
RebaseRates == {Zero, Frac(1, 2), Frac(4, 5), Frac(9, 10), One, Frac(16, 1)}

\* the currencies a table is keyed by
RebaseKeys == {{"USD", "EUR", "GBP"}, {"USD", "EUR"}, {"EUR", "GBP"}, {"USD"}}

\* tables expressed against USD: USD, where it is listed, is quoted at one
RebaseTables ==
    {R \in UNION {[keys -> RebaseRates] : keys \in RebaseKeys} :
        FX_CANONICAL_BASE \in DOMAIN R => R[FX_CANONICAL_BASE] = One}

\* the bases asked for, one of them not yet normalized and one never quoted
RebaseBases == {"USD", "EUR", "eur", "GBP", "TRY"}

InitRebase ==
    /\ last_snapshot = None
    /\ fallback = TRUE
    /\ call = NoCall
    /\ refresh_state = EmptyState
    /\ throttle_seconds = 0
    /\ now = 0
    /\ fx_rates = {}
    /\ positions = <<>>
    /\ \E R \in RebaseTables :
           response = [op |-> "rates", rates |-> R, original_base |-> FX_CANONICAL_BASE]

\* rebase_rates(R, new_base)
Rebase ==
    /\ response.op = "rates"
    /\ \E new_base \in RebaseBases :
           response' = [op |-> "rebase_rates", rates |-> response.rates,
                        original_base |-> response.original_base,
                        new_base |-> new_base,
                        rebased |-> rebase_rates(response.rates, new_base)]
    /\ UNCHANGED <<last_snapshot, fallback, call, refresh_state, throttle_seconds, now,
                   fx_rates, positions>>

\* rebase_rates(rebase_rates(R, new_base), original_base)
RebaseBack ==
    /\ response.op = "rebase_rates"
    /\ response.rebased.ok
    /\ response' = [op |-> "rebase_back", rates |-> response.rates,
                    original_base |-> response.original_base,
                    new_base |-> response.new_base,
                    rebased |-> response.rebased,
                    back |-> rebase_rates(response.rebased.rates, response.original_base)]
    /\ UNCHANGED <<last_snapshot, fallback, call, refresh_state, throttle_seconds, now,
                   fx_rates, positions>>

NextRebase == Rebase \/ RebaseBack

SpecRebase == InitRebase /\ [][NextRebase]_vars

\* two units in the last of the context's significant digits
RoundingTolerance == Frac(2, Pow10(ROUNDING_PRECISION - 1))

WithinTolerance(x, y) == DecLE(DecAbs(DecSub(x, y)), DecMul(RoundingTolerance, DecAbs(y)))

Rebased == response.op \in {"rebase_rates", "rebase_back"}

TargetBase == strip_upper(response.new_base)

BaseQuoted == TargetBase \in DOMAIN response.rates /\ response.rates[TargetBase] # Zero

\* C20: rebasing a table to a base it quotes at a nonzero rate puts that base
\* at exactly one, and rebasing the result back to the original base gives a
\* table over the same currencies with every rate within rounding tolerance of
\* the original; rebasing to a base that is missing or quoted at zero raises
\* RebaseError and returns no table.
C20_RebaseRoundTrip ==
    /\ Rebased =>
           /\ response.rebased.ok <=> BaseQuoted
           /\ ~response.rebased.ok => response.rebased.rates = EmptyRates
           /\ response.rebased.ok =>
                  /\ DOMAIN response.rebased.rates = DOMAIN response.rates
                  /\ response.rebased.rates[TargetBase] = One
    /\ response.op = "rebase_back" =>
           /\ response.back.ok <=> response.original_base \in DOMAIN response.rates
           /\ ~response.back.ok => response.back.rates = EmptyRates
           /\ response.back.ok =>
                  /\ DOMAIN response.back.rates = DOMAIN response.rates
                  /\ \A c \in DOMAIN response.rates :
                         WithinTolerance(response.back.rates[c], response.rates[c])

\* USD 1, EUR 0.9, GBP 0.8 rebased to EUR and back: GBP comes back rounded, not
\* exactly 0.8
C20_Witness ==
    /\ response.op = "rebase_back"
    /\ response.rates = [c \in {"USD", "EUR", "GBP"} |->
                            CASE c = "USD" -> One [] c = "EUR" -> Frac(9, 10)
                              [] OTHER -> Frac(4, 5)]
    /\ response.new_base = "EUR"
    /\ response.rebased.rates["EUR"] = One
    /\ response.back.ok
    /\ response.back.rates["GBP"] # response.rates["GBP"]
    /\ response.back.rates["USD"] = One

-----------------------------------------------------------------------------
(* Converting an amount                                                    *)

\* native amounts, one negative and one with more digits than the context keeps
ConvertAmounts == {Zero, One, Frac(50, 1), Frac(100, 1), Frac(0 - 50, 1),
                   Frac(5, 4), Frac(12345, 100)}

ConvertRates == {Frac(1, 2), Frac(5, 4), Frac(2, 1), Frac(16, 1), Frac(1, 32),
                 Frac(3333, 10000)}

\* sides as callers give them
ConvertSides == {"LONG", "SHORT", "short", " long ", "flat", ""}

InitConvert ==
    /\ last_snapshot = None
    /\ fallback = TRUE
    /\ call = NoCall
    /\ refresh_state = EmptyState
    /\ throttle_seconds = 0
    /\ now = 0
    /\ fx_rates = {}
    /\ positions = <<>>
    /\ \E amount \in ConvertAmounts, rate \in ConvertRates :
           response = [op |-> "amount", amount |-> amount, rate |-> rate]

\* convert_amount(amount, rate, side=side)
ConvertAmount ==
    /\ response.op = "amount"
    /\ \E side \in ConvertSides :
           response' = [op |-> "convert_amount", amount |-> response.amount,
                        rate |-> response.rate, side |-> side,
                        result |-> IF invalid_side(side)
                                   THEN [raised |-> "ValueError", value |-> None]
                                   ELSE [raised |-> "none",
                                         value |-> Some(convert_amount(response.amount,
                                                                       response.rate,
                                                                       side))]]
    /\ UNCHANGED <<last_snapshot, fallback, call, refresh_state, throttle_seconds, now,
                   fx_rates, positions>>

NextConvert == ConvertAmount

SpecConvert == InitConvert /\ [][NextConvert]_vars

Converted == response.op = "convert_amount"

\* amount x rate as the decimal context gives it
ContextProduct == context_round(DecMul(response.amount, response.rate))

\* C21: for every amount and rate a SHORT conversion is the negated LONG
\* conversion, which is the negated product amount x rate, and a LONG
\* conversion is that product; a side that is neither LONG nor SHORT once
\* trimmed and upper-cased raises ValueError and returns no amount.
C21_ShortNegatesLong ==
    Converted =>
        /\ response.side \in {"SHORT", "short"} =>
               /\ response.result.raised = "none"
               /\ response.result.value =
                      Some(DecNeg(convert_amount(response.amount, response.rate, "LONG")))
               /\ response.result.value = Some(DecNeg(ContextProduct))
        /\ response.side \in {"LONG", " long "} =>
               /\ response.result.raised = "none"
               /\ response.result.value = Some(ContextProduct)
        /\ response.side \in {"flat", ""} =>
               /\ response.result.raised = "ValueError"
               /\ response.result.value = None

\* convert_amount(50, 2, side="short") = -100
C21_Witness ==
    /\ Converted /\ response.side = "short"
    /\ response.amount = Frac(50, 1) /\ response.rate = Frac(2, 1)
    /\ response.result.value = Some(Frac(0 - 100, 1))

-----------------------------------------------------------------------------
(* refresh_latest step by step, two callers on one orchestrator            *)

\* the threads that call refresh_latest: a request handler and the scheduler's
Callers == {"manual", "scheduled"}

\* refresh_latest calls begun, over both callers
MaxCalls == 3

\* get_latest raised something that is not a ProviderError
Unexpected == [ok |-> FALSE, snapshot |-> None, error |-> "KeyError"]

\* what get_latest can do in this specification: a snapshot of the first rate
\* table, ProviderError, or another exception
StepOutcomes(role, base) ==
    {ProviderError, Unexpected}
        \cup {Returned(s) : s \in {x \in Snapshots(role, base) : x.rates["GBP"] = <<1, 2>>}}

\* a caller's refresh_latest call: where it is, what it has done, its locals;
\* raced = the record was written by the other caller after this call read it
IdleFrame == [pc |-> "idle", events |-> <<>>, snapshot |-> None, cached_record |-> None,
              result |-> None, raised |-> "none", raced |-> FALSE]

InFlight(frame) == frame.pc \in {"primary", "fallback", "store", "cache", "mark_stale"}

\* where a call that lets every exception of get_latest start the failover goes
after_get_latest_catches_all(role, outcome, fb) ==
    IF outcome.ok THEN "store"
    ELSE IF role = "primary" /\ fb THEN "fallback" ELSE "cache"

\* where a call that asks the fallback whatever the primary did goes
after_get_latest_asks_fallback(role, outcome, fb) ==
    IF role = "primary" /\ fb THEN "fallback"
    ELSE IF outcome.ok THEN "store"
    ELSE IF outcome = ProviderError THEN "cache" ELSE "raised"

\* where the call goes after a get_latest: try / except ProviderError
after_get_latest(role, outcome, fb) ==
    IF outcome.ok THEN "store"
    ELSE IF outcome = ProviderError
         THEN IF role = "primary" /\ fb THEN "fallback" ELSE "cache"
         ELSE "raised"

\* the record a cache-serving call writes, the flag left as it was read
mark_stale_keeps_flag(cached_record) == Some(cached_record)

\* lines 111-126: SnapshotRecord(snapshot=cached, stale=True)
mark_stale(cached_record) == Some(SnapshotRecord(cached_record.snapshot, TRUE))

\* the other callers whose call has read the record and not yet written it
\* have been overtaken by this write
Overtake(frames, writer) ==
    [c \in Callers |->
        IF c # writer /\ frames[c].pc = "mark_stale"
        THEN [frames[c] EXCEPT !.raced = TRUE] ELSE frames[c]]

InitSteps ==
    /\ last_snapshot = None
    /\ fallback \in BOOLEAN
    /\ call = [frames |-> [c \in Callers |-> IdleFrame], begun |-> 0, writes |-> <<>>]
    /\ refresh_state = EmptyState
    /\ throttle_seconds = 0
    /\ now = 0
    /\ fx_rates = {}
    /\ positions = <<>>
    /\ response = NoResponse

StepFrame == UNCHANGED <<fallback, refresh_state, throttle_seconds, now, fx_rates,
                         positions, response>>

\* a caller enters refresh_latest
BeginCall ==
    \E c \in Callers :
        /\ ~InFlight(call.frames[c])
        /\ call.begun < MaxCalls
        /\ call' = [call EXCEPT !.frames[c] = [IdleFrame EXCEPT !.pc = "primary"],
                                !.begun = @ + 1]
        /\ UNCHANGED last_snapshot
        /\ StepFrame

\* the call's frame after a get_latest that did `outcome`
after_attempt(frame, role, outcome, fb) ==
    [frame EXCEPT !.pc = after_get_latest(role, outcome, fb),
                  !.events = Append(@, Attempt(role, outcome)),
                  !.snapshot = IF outcome.ok THEN outcome.snapshot ELSE @,
                  !.raised = IF outcome = Unexpected THEN Unexpected.error ELSE @]

\* lines 39-40: self._primary.get_latest(base)
PrimaryGetLatest ==
    \E c \in Callers, outcome \in StepOutcomes("primary", FX_CANONICAL_BASE) :
        /\ call.frames[c].pc = "primary"
        /\ call' = [call EXCEPT !.frames[c] = after_attempt(@, "primary", outcome, fallback)]
        /\ UNCHANGED last_snapshot
        /\ StepFrame

\* lines 71-75: self._fallback.get_latest(base)
FallbackGetLatest ==
    \E c \in Callers, outcome \in StepOutcomes("fallback", FX_CANONICAL_BASE) :
        /\ call.frames[c].pc = "fallback"
        /\ call' = [call EXCEPT !.frames[c] = after_attempt(@, "fallback", outcome, fallback)]
        /\ UNCHANGED last_snapshot
        /\ StepFrame

\* lines 53-54 and 88-89: _store_snapshot(snapshot, stale=False); return snapshot
StoreSnapshot ==
    \E c \in Callers :
        LET frame == call.frames[c]
            written == store_snapshot(frame.snapshot[1], FALSE)
        IN  /\ frame.pc = "store"
            /\ last_snapshot' = written
            /\ call' = [call EXCEPT
                   !.frames = [Overtake(call.frames, c) EXCEPT ![c] =
                                  [frame EXCEPT !.pc = "returned",
                                                !.events = Append(@, Attempt("store", Returned(frame.snapshot[1]))),
                                                !.result = frame.snapshot]],
                   !.writes = Append(@, [caller |-> c, record |-> written[1],
                                         read |-> None, raced |-> FALSE])]
            /\ StepFrame

\* lines 106-112: the record is read; none, and the call raises ProviderError
ReadCache ==
    \E c \in Callers :
        LET frame == call.frames[c]
        IN  /\ frame.pc = "cache"
            /\ call' = [call EXCEPT !.frames[c] =
                   [frame EXCEPT
                       !.pc = IF last_snapshot = None THEN "raised" ELSE "mark_stale",
                       !.events = Append(@, Attempt("cache",
                                     IF last_snapshot = None THEN ProviderError
                                     ELSE Returned(last_snapshot[1].snapshot))),
                       !.cached_record = last_snapshot,
                       !.raised = IF last_snapshot = None THEN "ProviderError" ELSE @]]
            /\ UNCHANGED last_snapshot
            /\ StepFrame

\* lines 126-127: the record is replaced by the stale one; return cached
MarkStale ==
    \E c \in Callers :
        LET frame == call.frames[c]
            written == mark_stale(frame.cached_record[1])
        IN  /\ frame.pc = "mark_stale"
            /\ last_snapshot' = written
            /\ call' = [call EXCEPT
                   !.frames = [Overtake(call.frames, c) EXCEPT ![c] =
                                  [frame EXCEPT !.pc = "returned",
                                                !.events = Append(@, Attempt("stale", Returned(frame.cached_record[1].snapshot))),
                                                !.result = Some(frame.cached_record[1].snapshot)]],
                   !.writes = Append(@, [caller |-> c, record |-> written[1],
                                         read |-> frame.cached_record,
                                         raced |-> frame.raced])]
            /\ StepFrame

NextSteps ==
    \/ BeginCall
    \/ PrimaryGetLatest
    \/ FallbackGetLatest
    \/ StoreSnapshot
    \/ ReadCache
    \/ MarkStale

SpecSteps == InitSteps /\ [][NextSteps]_vars

-----------------------------------------------------------------------------
(* Record history claims                                                   *)

\* the snapshot of the most recent provider success, over all calls so far
LatestFetched == IF call.fetched # None THEN call.fetched ELSE call.fetched_before

-----------------------------------------------------------------------------
(* Provider order claims                                                   *)

Providers == {"primary", "fallback"}

\* the positions of a call's events at which `what` was done
EventsOf(frame, what) == {i \in 1..Len(frame.events) : frame.events[i].provider \in what}

FailedBefore(frame, role, j) ==
    \E i \in 1..(j - 1) : frame.events[i] = Attempt(role, ProviderError)

\* C22: within one refresh_latest call the primary's get_latest is called
\* exactly once, first; the fallback's at most once, only when one is
\* configured and after the primary's call raised ProviderError; no provider is
\* called after one has succeeded; the cached record is read or rewritten only
\* after every configured provider has failed.
C22_ProvidersTriedInOrder ==
    \A c \in Callers :
        LET frame == call.frames[c]
        IN  /\ Cardinality(EventsOf(frame, {"primary"})) =
                   (IF frame.pc \in {"idle", "primary"} THEN 0 ELSE 1)
            /\ EventsOf(frame, {"primary"}) \subseteq {1}
            /\ Cardinality(EventsOf(frame, {"fallback"})) <= 1
            /\ \A j \in EventsOf(frame, {"fallback"}) :
                   fallback /\ FailedBefore(frame, "primary", j)
            /\ \A i \in EventsOf(frame, Providers) :
                   frame.events[i].outcome.ok =>
                       \A j \in EventsOf(frame, Providers) : j <= i
            /\ \A j \in EventsOf(frame, {"cache", "stale"}) :
                   /\ FailedBefore(frame, "primary", j)
                   /\ fallback => FailedBefore(frame, "fallback", j)

\* a call that asked the primary, then the fallback, then served the cache
C22_Witness ==
    \E c \in Callers :
        LET frame == call.frames[c]
        IN  /\ frame.pc = "returned" /\ Len(frame.events) = 4
            /\ frame.events[1] = Attempt("primary", ProviderError)
            /\ frame.events[2] = Attempt("fallback", ProviderError)
            /\ frame.events[3].provider = "cache"
            /\ frame.events[4].provider = "stale"

-----------------------------------------------------------------------------
(* Unexpected provider exceptions                                          *)

\* the caller's call in which the primary's get_latest raised something that
\* is not a ProviderError
PrimaryRaisedOther(c) ==
    /\ call.frames[c].events # <<>>
    /\ call.frames[c].events[1] = Attempt("primary", Unexpected)

\* such a call has ended with that exception, having done nothing else
EndedByTheException(c) ==
    /\ call.frames[c].pc = "raised"
    /\ call.frames[c].raised = Unexpected.error
    /\ call.frames[c].result = None
    /\ Len(call.frames[c].events) = 1

\* the step in which the primary's get_latest raises it
PrimaryRaisesOther(c) ==
    /\ call.frames[c].pc = "primary"
    /\ call'.frames[c].events = <<Attempt("primary", Unexpected)>>

\* C28: when the primary's get_latest raises an exception that is not a
\* ProviderError, refresh_latest ends with that exception at once: no fallback
\* call, no read of the cached snapshot, no result, and the stored record
\* (snapshot and stale flag) is the one it was before the exception.
C28_OnlyProviderErrorFailsOver ==
    /\ [](\A c \in Callers : PrimaryRaisedOther(c) => EndedByTheException(c))
    /\ [][\A c \in Callers : PrimaryRaisesOther(c) =>
              /\ last_snapshot' = last_snapshot
              /\ call'.writes = call.writes]_vars

\* a KeyError out of the primary with a fallback configured and a snapshot cached
C28_Witness ==
    \E c \in Callers :
        /\ PrimaryRaisedOther(c) /\ call.frames[c].pc = "raised"
        /\ fallback /\ last_snapshot # None /\ ~last_snapshot[1].stale

-----------------------------------------------------------------------------
(* Interleaved refresh claims                                              *)

\* the i-th write of the record served the cache: its call had found every
\* provider failing and had read the record
ServedCache(i) == call.writes[i].read # None

\* the i-th write put back a snapshot other than the one the record held
PutBackOlder(i) ==
    /\ i > 1 /\ ServedCache(i)
    /\ call.writes[i].record.snapshot # call.writes[i - 1].record.snapshot

\* C23: refresh_latest takes no lock. The record always is what was written
\* last; a call that found every provider failing writes the snapshot it read
\* from the record, flagged stale, and a call that fetched writes its snapshot
\* fresh; such a stale write replaces a different snapshot, one stored after the
\* call's read, only when the other caller wrote between that read and the
\* write.
C23_StaleOverwriteByInterleaving ==
    /\ last_snapshot = (IF call.writes = <<>> THEN None
                        ELSE Some(call.writes[Len(call.writes)].record))
    /\ \A i \in 1..Len(call.writes) :
           /\ ServedCache(i) =>
                  call.writes[i].record =
                      SnapshotRecord(call.writes[i].read[1].snapshot, TRUE)
           /\ ~ServedCache(i) => ~call.writes[i].record.stale
           /\ PutBackOlder(i) =>
                  /\ call.writes[i].raced
                  /\ call.writes[i - 1].caller # call.writes[i].caller

\* one caller stored the snapshot of timestamp 2 fresh, then the other, which
\* had read the record before, put the snapshot of timestamp 1 back as stale
C23_Witness ==
    LET n == Len(call.writes)
    IN  /\ n >= 2
        /\ PutBackOlder(n)
        /\ ~call.writes[n - 1].record.stale /\ ~ServedCache(n - 1)
        /\ call.writes[n - 1].record.snapshot.timestamp = 2
        /\ call.writes[n].record.snapshot.timestamp = 1
        /\ last_snapshot = Some(SnapshotRecord(call.writes[n].record.snapshot, TRUE))
        /\ \A c \in Callers : call.frames[c].pc = "returned"

-----------------------------------------------------------------------------
(* HTTPClient.get (providers/http_client.py)                               *)

\* the largest max_retries a client is configured with
MaxRetries == 3

\* what one session.get does: a transport error (RequestException), or a
\* response with a status and a body that is JSON or not
HttpOutcomes ==
    {[transport |-> FALSE, status |-> st, json |-> js] :
        st \in {200, 404, 500}, js \in BOOLEAN}
        \cup {[transport |-> TRUE, status |-> 0, json |-> FALSE]}

\* _handle_response: ok = FALSE is HTTPClientError
handle_response(outcome) ==
    IF outcome.status >= 500 THEN [ok |-> FALSE, error |-> "Server error"]
    ELSE IF outcome.status >= 400 THEN [ok |-> FALSE, error |-> "Client error"]
    ELSE IF ~outcome.json THEN [ok |-> FALSE, error |-> "Invalid JSON response"]
    ELSE [ok |-> TRUE, error |-> "none"]

\* the try block: the request, then _handle_response on what came back
try_request(outcome) ==
    IF outcome.transport THEN [ok |-> FALSE, error |-> "RequestException"]
    ELSE handle_response(outcome)

\* a loop that asks once more than it was told to
loop_continues_once_more(attempt, max_retries) == attempt <= max_retries

\* while attempt < self._config.max_retries
loop_continues(attempt, max_retries) == attempt < max_retries

InitHttp ==
    /\ last_snapshot = None
    /\ fallback = TRUE
    /\ call = NoCall
    /\ refresh_state = EmptyState
    /\ throttle_seconds = 0
    /\ now = 0
    /\ fx_rates = {}
    /\ positions = <<>>
    /\ \E max_retries \in 0..MaxRetries :
           response = [op |-> "HTTPClient.get", max_retries |-> max_retries, pc |-> "while",
                       attempt |-> 0, last_error |-> None, log |-> <<>>,
                       payload |-> None, raised |-> "none"]

HttpFrame == UNCHANGED <<last_snapshot, fallback, call, refresh_state, throttle_seconds,
                         now, fx_rates, positions>>

\* lines 53-61: one pass of the loop body up to the return, or to the except
\* clause with its break on the last attempt
HttpAttempt ==
    /\ response.op = "HTTPClient.get" /\ response.pc = "while"
    /\ loop_continues(response.attempt, response.max_retries)
    /\ \E outcome \in HttpOutcomes :
           LET tried == try_request(outcome)
               attempt == response.attempt + 1
           IN  response' =
                   IF tried.ok
                   THEN [response EXCEPT !.attempt = attempt,
                                         !.log = Append(@, [event |-> "request", result |-> "ok"]),
                                         !.payload = Some(outcome),
                                         !.pc = "returned"]
                   ELSE [response EXCEPT !.attempt = attempt,
                                         !.log = Append(@, [event |-> "request", result |-> tried.error]),
                                         !.last_error = Some(tried.error),
                                         !.pc = IF attempt >= response.max_retries
                                                THEN "break" ELSE "sleep"]
    /\ HttpFrame

\* lines 62-71: time.sleep(sleep_for), then back to the loop test
HttpSleep ==
    /\ response.op = "HTTPClient.get" /\ response.pc = "sleep"
    /\ response' = [response EXCEPT !.log = Append(@, [event |-> "sleep", result |-> "slept"]),
                                    !.pc = "while"]
    /\ HttpFrame

\* line 73: the loop has ended without a return
HttpRaise ==
    /\ response.op = "HTTPClient.get"
    /\ \/ response.pc = "break"
       \/ response.pc = "while" /\ ~loop_continues(response.attempt, response.max_retries)
    /\ response' = [response EXCEPT !.pc = "raised", !.raised = "HTTPClientError"]
    /\ HttpFrame

NextHttp == HttpAttempt \/ HttpSleep \/ HttpRaise

\* the call runs on its caller's thread: session.get is bounded by the timeout
\* and sleep by its delay, so a step that can be taken is taken
SpecHttp == InitHttp /\ [][NextHttp]_vars /\ WF_vars(NextHttp)

Requests == {i \in 1..Len(response.log) : response.log[i].event = "request"}

Sleeps == {i \in 1..Len(response.log) : response.log[i].event = "sleep"}

Succeeded == {i \in Requests : response.log[i].result = "ok"}

HttpDone == response.pc \in {"returned", "raised"}

\* what holds at every point of a call
HttpBounded ==
    /\ Cardinality(Requests) <= response.max_retries
    /\ \A i \in Succeeded : i = Len(response.log)
    /\ \A i \in Requests : i > 1 => (i - 1) \in Sleeps
    /\ \A i \in Sleeps : i > 1 /\ (i - 1) \in Requests \ Succeeded
    /\ response.pc = "returned" <=> Succeeded # {}
    /\ response.pc = "returned" =>
           /\ response.payload # None /\ try_request(response.payload[1]).ok
           /\ response.raised = "none"
    /\ response.pc = "raised" =>
           /\ response.raised = "HTTPClientError" /\ response.payload = None
           /\ Cardinality(Requests) = response.max_retries
           /\ Succeeded = {}
    /\ HttpDone => Len(response.log) \notin Sleeps

\* C27: HTTPClient.get ends, having made at most max_retries requests: it
\* returns the payload of the first successful response and makes no request
\* after it; when every attempt fails (transport error, status >= 400, a body
\* that is not JSON) it raises HTTPClientError after exactly max_retries
\* requests; it sleeps once between two consecutive attempts and not after the
\* last one.
C27_GetEndsWithinMaxRetries == []HttpBounded /\ <>HttpDone

\* max_retries = 2: a 500, one sleep, then a 200 whose payload is returned
C27_Witness ==
    /\ response.op = "HTTPClient.get" /\ response.max_retries = 2
    /\ response.pc = "returned"
    /\ response.log = << [event |-> "request", result |-> "Server error"],
                         [event |-> "sleep", result |-> "slept"],
                         [event |-> "request", result |-> "ok"] >>
    /\ response.payload = Some([transport |-> FALSE, status |-> 200, json |-> TRUE])

=============================================================================
